---- MODULE Spec2Model ----
(***************************************************************************)
(* A model of littlevk's ownership / deallocation layer (Deallocator,      *)
(* DeviceReturnProxy, ComposedReturnProxy), of its frame loop              *)
(* (acquire_image, present_image, swapchain_render_loop), of its           *)
(* declarative assemblers (LinkedDeviceAllocator, RenderPassAssembler,     *)
(* PipelineAssembler) and of its utilities (find_memory_type, submit_now,  *)
(* swapchain resize, the global instance).                                 *)
(*                                                                         *)
(* A native handle is a positive integer; the default-constructed ("{}")   *)
(* value of a handle type is NullHandle.  A Deallocation Record is a       *)
(* closure [val](device){ destructor(device, val); }: it is modelled by the*)
(* handle it captured, and running it appends that handle to `destroyed`.  *)
(***************************************************************************)
EXTENDS Integers, Sequences, FiniteSets, TLC

\* ------------------------------------------------------------------ bounds
MaxProxies == 2     \* proxies the caller creates and keeps
MaxComposed == 1    \* Composed Proxies the caller creates and keeps
MaxCommits == 4     \* consuming calls (unwrap / defer) in one behaviour
MaxCount == 3       \* swapchain images, hence frame-in-flight slots
MaxIters == 3       \* iterations of the render loop in one behaviour
MaxAttachments == 2 \* attachments added to a render-pass assembler
MaxSubpasses == 1   \* subpass assemblers handed out by one assembler
MaxRefs == 2        \* attachment references given to one assembler's subpasses
MaxBindings == 2    \* descriptor bindings declared on one pipeline assembler
MaxTypes == 3       \* entries of memoryTypes (VK_MAX_MEMORY_TYPES is 32)
MaxPending == 2     \* work already pending on a queue when a one-shot call starts
MaxCalls == 2       \* one-shot submissions in one behaviour
MaxResizes == 2     \* resizes of one swapchain
MaxInstances == 2   \* native instances created in one behaviour

\* ------------------------------------------------------- program constants
NullHandle == 0     \* the value of "return {};"

VARIABLES
    \* ---- ownership / deallocation model
    proxies,                \* the return proxies the caller holds, by creation order
    nextHandle,             \* the next native handle the device hands out
    device_deallocators,    \* Deallocator::device_deallocators
    localq,                 \* a caller's transient DeallocationQueue
    ret,                    \* the value returned by the last consuming call
    destroyed,              \* destructor calls made so far, in order
    \* ---- history (not program state)
    uses,                   \* per proxy: consuming calls made on it (0, 1, more)
    localSubs,              \* sub-allocations staged into localq since it was opened
    localFailed,            \* ... and how many of them had failed
    ncommit,                \* consuming calls so far
    lastOp,                 \* the last operation and the state it started from
    \* ---- frame loop (swapchain_render_loop)
    pc,                     \* where the loop's thread is
    count,                  \* swapchain.images.size()
    frame,                  \* the frame-in-flight index
    op,                     \* the SurfaceOperation last returned
    in_flight,              \* per slot: the fence is signaled
    image_available,        \* per slot: the semaphore is signaled
    render_finished,        \* per slot: the semaphore is signaled
    gpu,                    \* graphics queue: submissions not yet executed
    presents,               \* present queue: presentations not yet done
    shouldClose,            \* glfwWindowShouldClose
    \* ---- history (not program state)
    iter,                   \* iterations started
    okIters,                \* iterations ended with acquire Ok and present Ok
    otherIters,             \* iterations ended any other way
    it,                     \* what the current (or last) iteration did
    prev,                   \* what the iteration before it did
    lastGpu,                \* the last queue operation the device completed
    \* ---- declarative assemblers
    linked,                 \* the LinkedDeviceAllocator chain being built
    rpa,                    \* the RenderPassAssembler
    subs,                   \* the SubpassAssembler objects handed out
    produced,               \* what createRenderPass was given
    builder,                \* the PipelineAssembler
    pipeline,               \* the outcome of PipelineAssembler::compile
    \* ---- utilities
    mem,                    \* a call of find_memory_type: arguments and result
    once,                   \* a one-shot submission and its queue
    sc,                     \* a Swapchain through resize and destroy_swapchain
    inst,                   \* the global instance and debug messenger
    acq                     \* a call of acquire_image on its own

ownVars == <<proxies, nextHandle, device_deallocators, localq, ret, destroyed,
             uses, localSubs, localFailed, ncommit, lastOp>>

frameVars == <<pc, count, frame, op, in_flight, image_available,
               render_finished, gpu, presents, shouldClose,
               iter, okIters, otherIters, it, prev, lastGpu>>

asmVars == <<linked, rpa, subs, produced, builder, pipeline>>

utilVars == <<mem, once, sc, inst, acq>>

vars == <<ownVars, frameVars, asmVars, utilVars>>

\* ---------------------------------------------------------------- helpers
RECURSIVE Count(_, _)
Count(s, x) ==
    IF s = <<>> THEN 0
    ELSE (IF Head(s) = x THEN 1 ELSE 0) + Count(Tail(s), x)

Slots == DOMAIN proxies

\* One more use, counted as 0, 1 or more.
UsedAgain(n) == IF n < 2 THEN n + 1 ELSE n

NoOp == [op |-> "none", pid |-> 0, failed |-> FALSE, subfail |-> 0,
         pvalue |-> 0, predev |-> <<>>, prelocal |-> <<>>, pqueue |-> <<>>,
         predestroyed |-> <<>>]

\* ------------------------------------------------- DeviceReturnProxy<T, d>
\* DeviceReturnProxy(T value) : value(value), failed(false)
DeviceReturnProxyValue(v) ==
    [kind |-> "device", value |-> v, failed |-> FALSE, queue |-> <<>>,
     subs |-> 0, subfail |-> 0]

\* DeviceReturnProxy(bool failed) : failed(failed); value is default-initialised
DeviceReturnProxyFailed(f) ==
    [kind |-> "device", value |-> NullHandle, failed |-> f, queue |-> <<>>,
     subs |-> 0, subfail |-> 0]

\* A creation function (render_pass, command_pool, sampler, ...): the native
\* call either succeeds, and the handle is wrapped, or it does not: return true.
CreateResult(ok, h) ==
    IF ok THEN DeviceReturnProxyValue(h) ELSE DeviceReturnProxyFailed(TRUE)

PushedIgnoringFailed(p, q) == Append(q, p.value)

\* The queue after unwrap/defer of DeviceReturnProxy p onto queue q:
\*   if (failed) return {};  T val = value;  q.push([val](device){...});
Pushed(p, q) == IF p.failed THEN q ELSE Append(q, p.value)

\* The value unwrap/defer returns.
Returned(p) == IF p.failed THEN NullHandle ELSE p.value

\* ------------------------------------------------- ComposedReturnProxy<T>
\* ComposedReturnProxy(T value, DeallocationQueue queue): the queue is copied
ComposedReturnProxyValue(v, q, n, nf) ==
    [kind |-> "composed", value |-> v, failed |-> FALSE, queue |-> q,
     subs |-> n, subfail |-> nf]

\* ComposedReturnProxy(bool failed) : failed(failed); queue is empty
ComposedReturnProxyFailed(f) ==
    [kind |-> "composed", value |-> NullHandle, failed |-> f, queue |-> <<>>,
     subs |-> 0, subfail |-> 0]

RECURSIVE MovedReversed(_, _)
MovedReversed(src, dst) ==
    IF src = <<>> THEN [src |-> src, dst |-> dst]
    ELSE MovedReversed(Tail(src), <<Head(src)>> \o dst)

\* while (!queue.empty()) { dst.push(queue.front()); queue.pop(); }
RECURSIVE Moved(_, _)
Moved(src, dst) ==
    IF src = <<>> THEN [src |-> src, dst |-> dst]
    ELSE Moved(Tail(src), Append(dst, Head(src)))

\* The proxy's queue and the target queue after unwrap/defer of composed p.
ComposedMoved(p, q) ==
    IF p.failed THEN [src |-> p.queue, dst |-> q] ELSE Moved(p.queue, q)

\* ------------------------------------------------------------- Deallocator
DroppedFrontOnly(q, log) ==
    IF q = <<>> THEN [queue |-> q, log |-> log]
    ELSE [queue |-> Tail(q), log |-> Append(log, Head(q))]

DroppedKept(q, log) == [queue |-> q, log |-> log \o q]

RECURSIVE DroppedBackFirst(_, _)
DroppedBackFirst(q, log) ==
    IF q = <<>> THEN [queue |-> q, log |-> log]
    ELSE DroppedBackFirst(SubSeq(q, 1, Len(q) - 1), Append(log, q[Len(q)]))

\* while (!device_deallocators.empty()) {
\*     device_deallocators.front()(device); device_deallocators.pop(); }
RECURSIVE Dropped(_, _)
Dropped(q, log) ==
    IF q = <<>> THEN [queue |-> q, log |-> log]
    ELSE Dropped(Tail(q), Append(log, Head(q)))

\* ------------------------------------------------------------------- Init
InitOwn ==
    /\ proxies = <<>>
    /\ nextHandle = 1
    /\ device_deallocators = <<>>
    /\ localq = <<>>
    /\ ret = NullHandle
    /\ destroyed = <<>>
    /\ uses = <<>>
    /\ localSubs = 0
    /\ localFailed = 0
    /\ ncommit = 0
    /\ lastOp = NoOp

\* ---------------------------------------------------------------- actions
\* What the last operation was and, for a consuming call or a drop, the
\* state it started from (history only).
Created(name) == [NoOp EXCEPT !.op = name]

Consumed(name, i, p) ==
    [op |-> name, pid |-> i,
     failed |-> p.failed,
     subfail |-> p.subfail,
     pvalue |-> p.value,
     predev |-> device_deallocators, prelocal |-> localq,
     pqueue |-> p.queue,
     predestroyed |-> <<>>]

DropCalled ==
    [NoOp EXCEPT !.op = "drop", !.predev = device_deallocators,
                 !.predestroyed = destroyed]

\* auto p = littlevk::command_pool(device, info);   (or any creation function)
create(ok) ==
    /\ Len(proxies) < MaxProxies
    /\ proxies' = Append(proxies, CreateResult(ok, nextHandle))
    /\ uses' = Append(uses, 0)
    /\ nextHandle' = IF ok THEN nextHandle + 1 ELSE nextHandle
    /\ lastOp' = Created("create")
    /\ UNCHANGED <<device_deallocators, localq, ret, destroyed, localSubs,
                   localFailed, ncommit>>
    /\ UNCHANGED frameVars
    /\ UNCHANGED asmVars
    /\ UNCHANGED utilVars

\* p.unwrap(deallocator) on a DeviceReturnProxy
unwrap(i) ==
    /\ proxies[i].kind = "device"
    /\ ncommit < MaxCommits
    /\ device_deallocators' = Pushed(proxies[i], device_deallocators)
    /\ ret' = Returned(proxies[i])
    /\ uses' = [uses EXCEPT ![i] = UsedAgain(@)]
    /\ ncommit' = ncommit + 1
    /\ lastOp' = Consumed("unwrap", i, proxies[i])
    /\ UNCHANGED <<proxies, nextHandle, localq, destroyed, localSubs,
                   localFailed>>
    /\ UNCHANGED frameVars
    /\ UNCHANGED asmVars
    /\ UNCHANGED utilVars

\* p.defer(queue) on a DeviceReturnProxy, queue being the caller's local one
defer(i) ==
    /\ proxies[i].kind = "device"
    /\ ncommit < MaxCommits
    /\ localq' = Pushed(proxies[i], localq)
    /\ ret' = Returned(proxies[i])
    /\ uses' = [uses EXCEPT ![i] = UsedAgain(@)]
    /\ ncommit' = ncommit + 1
    /\ localSubs' = localSubs + 1
    /\ localFailed' = localFailed + (IF proxies[i].failed THEN 1 ELSE 0)
    /\ lastOp' = Consumed("defer", i, proxies[i])
    /\ UNCHANGED <<proxies, nextHandle, device_deallocators, destroyed>>
    /\ UNCHANGED frameVars
    /\ UNCHANGED asmVars
    /\ UNCHANGED utilVars

\* littlevk::command_pool(device, info).unwrap(deallocator);   creation and
\* commit in one statement, the proxy being a temporary
commit(ok) ==
    /\ ncommit < MaxCommits
    /\ LET p == CreateResult(ok, nextHandle) IN
        /\ device_deallocators' = Pushed(p, device_deallocators)
        /\ ret' = Returned(p)
        /\ lastOp' = Consumed("unwrap", 0, p)
    /\ nextHandle' = IF ok THEN nextHandle + 1 ELSE nextHandle
    /\ ncommit' = ncommit + 1
    /\ UNCHANGED <<proxies, localq, destroyed, uses, localSubs, localFailed>>
    /\ UNCHANGED frameVars
    /\ UNCHANGED asmVars
    /\ UNCHANGED utilVars

\* littlevk::buffer(...).defer(queue);   creation and staging in one
\* statement, the proxy being a temporary (vulkan_mesh, filled buffers)
stage(ok) ==
    /\ ncommit < MaxCommits
    /\ LET p == CreateResult(ok, nextHandle) IN
        /\ localq' = Pushed(p, localq)
        /\ ret' = Returned(p)
        /\ localFailed' = localFailed + (IF p.failed THEN 1 ELSE 0)
        /\ lastOp' = Consumed("defer", 0, p)
    /\ nextHandle' = IF ok THEN nextHandle + 1 ELSE nextHandle
    /\ ncommit' = ncommit + 1
    /\ localSubs' = localSubs + 1
    /\ UNCHANGED <<proxies, device_deallocators, destroyed, uses>>
    /\ UNCHANGED frameVars
    /\ UNCHANGED asmVars
    /\ UNCHANGED utilVars

\* return { value, queue };  at the end of a composing function
\* (vulkan_mesh, the filled-buffer overloads): the local queue is copied into
\* the proxy and goes out of scope.
return_composed ==
    /\ Len(proxies) < MaxComposed
    /\ localSubs > 0
    /\ proxies' = Append(proxies,
            ComposedReturnProxyValue(nextHandle, localq, localSubs, localFailed))
    /\ uses' = Append(uses, 0)
    /\ nextHandle' = nextHandle + 1
    /\ localq' = <<>>
    /\ localSubs' = 0
    /\ localFailed' = 0
    /\ lastOp' = Created("return_composed")
    /\ UNCHANGED <<device_deallocators, ret, destroyed, ncommit>>
    /\ UNCHANGED frameVars
    /\ UNCHANGED asmVars
    /\ UNCHANGED utilVars

\* ComposedReturnProxy<T> p(true);
composed_failed ==
    /\ Len(proxies) < MaxComposed
    /\ proxies' = Append(proxies, ComposedReturnProxyFailed(TRUE))
    /\ uses' = Append(uses, 0)
    /\ lastOp' = Created("composed_failed")
    /\ UNCHANGED <<nextHandle, device_deallocators, localq, ret, destroyed,
                   localSubs, localFailed, ncommit>>
    /\ UNCHANGED frameVars
    /\ UNCHANGED asmVars
    /\ UNCHANGED utilVars

\* p.unwrap(deallocator) on a ComposedReturnProxy
composed_unwrap(i) ==
    /\ proxies[i].kind = "composed"
    /\ ncommit < MaxCommits
    /\ LET m == ComposedMoved(proxies[i], device_deallocators) IN
        /\ device_deallocators' = m.dst
        /\ proxies' = [proxies EXCEPT ![i].queue = m.src]
    /\ ret' = Returned(proxies[i])
    /\ ncommit' = ncommit + 1
    /\ uses' = [uses EXCEPT ![i] = UsedAgain(@)]
    /\ lastOp' = Consumed("composed_unwrap", i, proxies[i])
    /\ UNCHANGED <<nextHandle, localq, destroyed, localSubs, localFailed>>
    /\ UNCHANGED frameVars
    /\ UNCHANGED asmVars
    /\ UNCHANGED utilVars

\* p.defer(queue) on a ComposedReturnProxy
composed_defer(i) ==
    /\ proxies[i].kind = "composed"
    /\ ncommit < MaxCommits
    /\ LET m == ComposedMoved(proxies[i], localq) IN
        /\ localq' = m.dst
        /\ proxies' = [proxies EXCEPT ![i].queue = m.src]
    /\ ret' = Returned(proxies[i])
    /\ ncommit' = ncommit + 1
    /\ uses' = [uses EXCEPT ![i] = UsedAgain(@)]
    /\ localSubs' = localSubs + (IF uses[i] = 0 THEN proxies[i].subs ELSE 0)
    /\ localFailed' = localFailed + (IF uses[i] = 0 THEN proxies[i].subfail ELSE 0)
    /\ lastOp' = Consumed("composed_defer", i, proxies[i])
    /\ UNCHANGED <<nextHandle, device_deallocators, destroyed>>
    /\ UNCHANGED frameVars
    /\ UNCHANGED asmVars
    /\ UNCHANGED utilVars

\* deallocator.drop()
drop ==
    /\ LET d == Dropped(device_deallocators, destroyed) IN
        /\ device_deallocators' = d.queue
        /\ destroyed' = d.log
    /\ lastOp' = DropCalled
    /\ UNCHANGED <<proxies, nextHandle, localq, ret, uses, localSubs,
                   localFailed, ncommit>>
    /\ UNCHANGED frameVars
    /\ UNCHANGED asmVars
    /\ UNCHANGED utilVars

\* A caller that keeps its Return Proxies and consumes them at will.
NextOwn ==
    \/ \E ok \in BOOLEAN : create(ok)
    \/ \E i \in Slots : unwrap(i)
    \/ \E i \in Slots : defer(i)
    \/ drop

\* A caller that consumes Return Proxies as temporaries, composes them and
\* keeps the Composed Proxies.
NextComposed ==
    \/ \E ok \in BOOLEAN : commit(ok)
    \/ \E ok \in BOOLEAN : stage(ok)
    \/ return_composed
    \/ composed_failed
    \/ \E i \in Slots : composed_unwrap(i)
    \/ \E i \in Slots : composed_defer(i)
    \/ drop

\* ======================================================================
\* The frame loop
\* ======================================================================
SlotsOf(n) == 0 .. (n - 1)

\* SurfaceOperation { status, index }
SurfaceOperation(status, index) == [status |-> status, index |-> index]

NoIter == [start |-> 0, acq |-> "none", pres |-> "none", rendered |-> FALSE,
           submitted |-> FALSE, presented |-> FALSE, resized |-> 0,
           waited |-> FALSE, result |-> "none", busy |-> FALSE]

\* History of the device's queues: the kind of the operation completed last
\* and whether what it had to come after had happened (for a submission:
\* its iteration had acquired the image; for a presentation: the GPU had
\* executed its iteration's submission).
NoGpu == [kind |-> "none", ordered |-> TRUE]

\* How a vulkan.hpp call ended: it returned a result, or it threw.
Ended(result) ==
    IF result \in {"throwOutOfDate", "throwOther"} THEN result ELSE "returned"

\* present_syncronization(device, frames_in_flight): per slot two default
\* semaphores and one fence created with eSignaled.
PresentSyncronization(n) ==
    [image_available |-> [f \in SlotsOf(n) |-> FALSE],
     render_finished |-> [f \in SlotsOf(n) |-> FALSE],
     in_flight |-> [f \in SlotsOf(n) |-> TRUE]]

\* What acquireNextImageKHR can report: a result code, the thrown
\* vk::OutOfDateKHRError, or any other thrown vk::SystemError.
AcquireResults == {"eSuccess", "eSuboptimalKHR", "eErrorOutOfDateKHR",
                   "throwOutOfDate", "eErrorSurfaceLostKHR", "eNotReady",
                   "throwOther"}

\* catch (vk::OutOfDateKHRError &) is the only handler in acquire_image and
\* in present_image, and the loop has none: any other exception leaves the
\* function and the loop.
Propagates(result) == result = "throwOther"

\* acquire_image, after the wait on the fence: the SurfaceOperation returned.
AcquireOutcome(result, image_index) ==
    IF result \in {"throwOutOfDate", "eErrorOutOfDateKHR"}
        THEN SurfaceOperation("eResize", 0)
    ELSE IF result \notin {"eSuccess", "eSuboptimalKHR"}
        THEN SurfaceOperation("eFailed", 0)
    ELSE SurfaceOperation("eOk", image_index)

\* What presentKHR can report.
PresentResults == {"eSuccess", "eSuboptimalKHR", "throwOutOfDate", "throwOther"}

\* present_image: the return value of presentKHR is discarded; only the
\* thrown vk::OutOfDateKHRError is told apart.
PresentOutcome(result) ==
    IF result = "throwOutOfDate"
        THEN SurfaceOperation("eResize", 0)
    ELSE SurfaceOperation("eOk", 0)

NextFrameStuck(f, n) == f

\* frame = (frame + 1) % count;
NextFrame(f, n) == (f + 1) % n

FenceResetBeforeAcquire(status, signaled) == FALSE

FenceResetOnResize(status, signaled) ==
    IF status \in {"eOk", "eResize"} THEN FALSE ELSE signaled

\* device.resetFences(sync_frame.in_flight) is reached on the eOk path only:
\* both early returns leave the fence as the wait found it.
FenceAfterAcquire(status, signaled) == IF status = "eOk" THEN FALSE ELSE signaled

AfterAcquireNoContinue(status) == "record"

\* if (op.status == eResize) { resize(); continue; }   else fall through
AfterAcquire(status) == IF status = "eResize" THEN "resize_acquire" ELSE "record"

AfterPresentNoResize(status) == "advance"

\* if (op.status == eResize) resize();   then advance
AfterPresent(status) == IF status = "eResize" THEN "resize_present" ELSE "advance"

InitFrame ==
    /\ pc = "start"
    /\ count \in 1 .. MaxCount
    /\ frame = 0
    /\ op = SurfaceOperation("eOk", 0)
    /\ in_flight = [f \in SlotsOf(count) |-> FALSE]
    /\ image_available = [f \in SlotsOf(count) |-> FALSE]
    /\ render_finished = [f \in SlotsOf(count) |-> FALSE]
    /\ gpu = <<>>
    /\ presents = <<>>
    /\ shouldClose = FALSE
    /\ iter = 0
    /\ okIters = 0
    /\ otherIters = 0
    /\ it = NoIter
    /\ prev = NoIter
    /\ lastGpu = NoGpu

\* The deallocation model alone: the loop is not running.
InitIdle ==
    /\ pc = "off"
    /\ count = 1
    /\ frame = 0
    /\ op = SurfaceOperation("eOk", 0)
    /\ in_flight = [f \in SlotsOf(1) |-> FALSE]
    /\ image_available = [f \in SlotsOf(1) |-> FALSE]
    /\ render_finished = [f \in SlotsOf(1) |-> FALSE]
    /\ gpu = <<>>
    /\ presents = <<>>
    /\ shouldClose = FALSE
    /\ iter = 0
    /\ okIters = 0
    /\ otherIters = 0
    /\ it = NoIter
    /\ prev = NoIter
    /\ lastGpu = NoGpu

histVars == <<iter, okIters, otherIters, it, prev, lastGpu>>

\* The iteration ends: control is back at the head of the while loop.
EndIteration(ok) ==
    /\ okIters' = IF ok THEN okIters + 1 ELSE okIters
    /\ otherIters' = IF ok THEN otherIters ELSE otherIters + 1

\* uint32_t count = swapchain.images.size();
\* auto sync = present_syncronization(device, count).unwrap(deallocator);
\* command buffers allocated; uint32_t frame = 0;
LoopStart ==
    /\ pc = "start"
    /\ LET sync == PresentSyncronization(count)
           proxy == DeviceReturnProxyValue(nextHandle) IN
        /\ in_flight' = sync.in_flight
        /\ image_available' = sync.image_available
        /\ render_finished' = sync.render_finished
        /\ device_deallocators' = Pushed(proxy, device_deallocators)
        /\ ret' = Returned(proxy)
    /\ nextHandle' = nextHandle + 1
    /\ frame' = 0
    /\ pc' = "head"
    /\ UNCHANGED <<proxies, localq, destroyed, uses, localSubs, localFailed,
                   ncommit, lastOp>>
    /\ UNCHANGED <<count, op, gpu, presents, shouldClose>>
    /\ UNCHANGED histVars
    /\ UNCHANGED asmVars
    /\ UNCHANGED utilVars

\* while (!glfwWindowShouldClose(window.handle)) { glfwPollEvents(); ...
LoopHead ==
    /\ pc = "head"
    /\ IF shouldClose
       THEN /\ pc' = "exit"
            /\ UNCHANGED histVars
       ELSE /\ iter < MaxIters
            /\ pc' = "acquire"
            /\ iter' = iter + 1
            /\ prev' = it
            /\ it' = [NoIter EXCEPT !.start = frame]
            /\ UNCHANGED <<okIters, otherIters, lastGpu>>
    /\ UNCHANGED <<count, frame, op, in_flight, image_available,
                   render_finished, gpu, presents, shouldClose>>
    /\ UNCHANGED ownVars
    /\ UNCHANGED asmVars
    /\ UNCHANGED utilVars

\* op = acquire_image(device, swapchain.handle, sync[frame]);
\* waitForFences blocks until the slot's fence is signaled; the fence is
\* reset only on the eOk path, where the acquisition also arms the slot's
\* image-available semaphore.
Acquire ==
    /\ pc = "acquire"
    /\ in_flight[frame]
    /\ \E result \in AcquireResults, image_index \in SlotsOf(count) :
        IF Propagates(result)
        THEN /\ it' = [it EXCEPT !.acq = "thrown", !.waited = TRUE]
             /\ pc' = "thrown"
             /\ UNCHANGED <<op, in_flight, image_available>>
        ELSE LET o == AcquireOutcome(result, image_index) IN
             /\ op' = o
             /\ in_flight' = [in_flight EXCEPT
                                ![frame] = FenceAfterAcquire(o.status, in_flight[frame])]
             /\ image_available' = IF o.status = "eOk"
                                     THEN [image_available EXCEPT ![frame] = TRUE]
                                     ELSE image_available
             /\ it' = [it EXCEPT !.acq = o.status, !.waited = TRUE]
             /\ pc' = AfterAcquire(o.status)
    /\ UNCHANGED <<count, frame, render_finished, gpu, presents, shouldClose,
                   iter, okIters, otherIters, prev, lastGpu>>
    /\ UNCHANGED ownVars
    /\ UNCHANGED asmVars
    /\ UNCHANGED utilVars

WaitIdleSkipped(g, p) == TRUE

\* device.waitIdle() returns once no queue of the device has work left.
WaitIdleReturns(g, p) == g = <<>> /\ p = <<>>

\* The resize callback (Skeleton::resize, LinkedDevices::resize):
\* device.waitIdle(), then littlevk::resize destroys the image views and the
\* swapchain and creates new ones.
ResizeCallback ==
    /\ WaitIdleReturns(gpu, presents)
    /\ it' = [it EXCEPT !.resized = @ + 1,
                        !.busy = @ \/ gpu # <<>> \/ presents # <<>>]

\* resize(); continue;
ResizeAtAcquire ==
    /\ pc = "resize_acquire"
    /\ ResizeCallback
    /\ EndIteration(FALSE)
    /\ pc' = "head"
    /\ UNCHANGED <<count, frame, op, in_flight, image_available,
                   render_finished, gpu, presents, shouldClose, iter, prev, lastGpu>>
    /\ UNCHANGED ownVars
    /\ UNCHANGED asmVars
    /\ UNCHANGED utilVars

\* cmd.begin(...); render(cmd, op.index); cmd.end();
Record ==
    /\ pc = "record"
    /\ it' = [it EXCEPT !.rendered = TRUE]
    /\ pc' = "submit"
    /\ UNCHANGED <<count, frame, op, in_flight, image_available,
                   render_finished, gpu, presents, shouldClose,
                   iter, okIters, otherIters, prev, lastGpu>>
    /\ UNCHANGED ownVars
    /\ UNCHANGED asmVars
    /\ UNCHANGED utilVars

\* vk::SubmitInfo submit_info { sync.image_available[frame], wait_stage, cmd,
\*                              sync.render_finished[frame] };
\* and the fence handed to submit is sync.in_flight[frame].
SubmitInfo(f) == [slot |-> f, wait |-> f, signal |-> f, fence |-> f]

\* graphics_queue.submit(submit_info, sync.in_flight[frame]);
\* The submission waits on image_available[frame] and signals
\* render_finished[frame] and the fence.  Submitting with a fence that is
\* still signaled, or waiting on a semaphore nothing will signal, is invalid
\* usage: the fence may or may not read as unsignaled afterwards, and the
\* submission may or may not ever execute.
Submit ==
    /\ pc = "submit"
    /\ LET info == SubmitInfo(frame) IN
       \E stuck \in (IF image_available[info.wait] THEN {FALSE} ELSE BOOLEAN),
          fence \in (IF in_flight[info.fence] THEN BOOLEAN ELSE {FALSE}) :
        /\ gpu' = Append(gpu, [slot |-> info.slot, wait |-> info.wait,
                                signal |-> info.signal, fence |-> info.fence,
                                stuck |-> stuck, iter |-> iter,
                                acquired |-> (it.acq = "eOk")])
        /\ in_flight' = [in_flight EXCEPT ![info.fence] = fence]
    /\ it' = [it EXCEPT !.submitted = TRUE]
    /\ pc' = "present"
    /\ UNCHANGED <<count, frame, op, image_available, render_finished,
                   presents, shouldClose, iter, okIters, otherIters, prev, lastGpu>>
    /\ UNCHANGED ownVars
    /\ UNCHANGED asmVars
    /\ UNCHANGED utilVars

\* wait_semaphores.push_back(sync_frame->render_finished);
\* vk::PresentInfoKHR present_info { wait_semaphores, swapchain, index };
PresentInfo(f, index) == [slot |-> f, wait |-> f, index |-> index]

\* op = present_image(present_queue, swapchain.handle, sync[frame], op.index);
\* The semaphore wait is queued behind render_finished[frame]; it is queued
\* too when the request is rejected as out of date, and then no image is
\* shown.  Any other exception leaves the loop.
Present ==
    /\ pc = "present"
    /\ \E result \in PresentResults, queued \in BOOLEAN :
        LET info == PresentInfo(frame, op.index)
            entry == [slot |-> info.slot, wait |-> info.wait,
                      index |-> info.index, iter |-> iter,
                      accepted |-> result \in {"eSuccess", "eSuboptimalKHR"}]
        IN
        IF Propagates(result)
        THEN /\ presents' = IF queued THEN Append(presents, entry) ELSE presents
             /\ it' = [it EXCEPT !.presented = TRUE, !.pres = "thrown",
                                 !.result = Ended(result)]
             /\ pc' = "thrown"
             /\ UNCHANGED op
        ELSE LET o == PresentOutcome(result) IN
             /\ queued
             /\ op' = o
             /\ presents' = Append(presents, entry)
             /\ it' = [it EXCEPT !.presented = TRUE, !.pres = o.status,
                                 !.result = Ended(result)]
             /\ pc' = AfterPresent(o.status)
    /\ UNCHANGED <<count, frame, in_flight, image_available, render_finished,
                   gpu, shouldClose, iter, okIters, otherIters, prev, lastGpu>>
    /\ UNCHANGED ownVars
    /\ UNCHANGED asmVars
    /\ UNCHANGED utilVars

\* if (op.status == eResize) resize();
ResizeAtPresent ==
    /\ pc = "resize_present"
    /\ ResizeCallback
    /\ pc' = "advance"
    /\ UNCHANGED <<count, frame, op, in_flight, image_available,
                   render_finished, gpu, presents, shouldClose,
                   iter, okIters, otherIters, prev, lastGpu>>
    /\ UNCHANGED ownVars
    /\ UNCHANGED asmVars
    /\ UNCHANGED utilVars

\* frame = (frame + 1) % count;   and back to the loop head
Advance ==
    /\ pc = "advance"
    /\ frame' = NextFrame(frame, count)
    /\ EndIteration(it.acq = "eOk" /\ it.pres = "eOk")
    /\ pc' = "head"
    /\ UNCHANGED <<count, op, in_flight, image_available, render_finished,
                   gpu, presents, shouldClose, iter, it, prev, lastGpu>>
    /\ UNCHANGED ownVars
    /\ UNCHANGED asmVars
    /\ UNCHANGED utilVars

LoopExitNoWait ==
    /\ pc = "exit"
    /\ pc' = "done"
    /\ UNCHANGED <<count, frame, op, in_flight, image_available,
                   render_finished, gpu, presents, shouldClose>>
    /\ UNCHANGED histVars
    /\ UNCHANGED ownVars
    /\ UNCHANGED asmVars
    /\ UNCHANGED utilVars

\* device.waitIdle();  after the loop
LoopExit ==
    /\ pc = "exit"
    /\ gpu = <<>>
    /\ presents = <<>>
    /\ pc' = "done"
    /\ UNCHANGED <<count, frame, op, in_flight, image_available,
                   render_finished, gpu, presents, shouldClose>>
    /\ UNCHANGED histVars
    /\ UNCHANGED ownVars
    /\ UNCHANGED asmVars
    /\ UNCHANGED utilVars

\* The user closes the window.
CloseWindow ==
    /\ ~shouldClose
    /\ pc \notin {"start", "done", "thrown"}
    /\ shouldClose' = TRUE
    /\ UNCHANGED <<pc, count, frame, op, in_flight, image_available,
                   render_finished, gpu, presents>>
    /\ UNCHANGED histVars
    /\ UNCHANGED ownVars
    /\ UNCHANGED asmVars
    /\ UNCHANGED utilVars

\* The GPU executes the submission at the front of the graphics queue: it
\* consumes the semaphore the submission waits on and signals its semaphore
\* and its fence.
GpuExecute ==
    /\ gpu # <<>>
    /\ LET s == Head(gpu) IN
        /\ ~s.stuck
        /\ image_available' = [image_available EXCEPT ![s.wait] = FALSE]
        /\ render_finished' = [render_finished EXCEPT ![s.signal] = TRUE]
        /\ in_flight' = [in_flight EXCEPT ![s.fence] = TRUE]
        /\ lastGpu' = [kind |-> "execute", ordered |-> s.acquired]
    /\ gpu' = Tail(gpu)
    /\ UNCHANGED <<pc, count, frame, op, presents, shouldClose>>
    /\ UNCHANGED <<iter, okIters, otherIters, it, prev>>
    /\ UNCHANGED ownVars
    /\ UNCHANGED asmVars
    /\ UNCHANGED utilVars

\* The present queue runs the operation at its front once the semaphore it
\* waits on is signaled; an accepted request hands its image to the
\* presentation engine.
GpuPresent ==
    /\ presents # <<>>
    /\ LET p == Head(presents) IN
        /\ render_finished[p.wait]
        /\ render_finished' = [render_finished EXCEPT ![p.wait] = FALSE]
        /\ lastGpu' = [kind |-> IF p.accepted THEN "present" ELSE "wait",
                       ordered |-> \A k \in 1 .. Len(gpu) : gpu[k].iter # p.iter]
    /\ presents' = Tail(presents)
    /\ UNCHANGED <<pc, count, frame, op, in_flight, image_available, gpu,
                   shouldClose>>
    /\ UNCHANGED <<iter, okIters, otherIters, it, prev>>
    /\ UNCHANGED ownVars
    /\ UNCHANGED asmVars
    /\ UNCHANGED utilVars

\* ======================================================================
\* The declarative assemblers
\* ======================================================================

\* bind(device, properties, dal): LinkedDeviceAllocator <> with an empty
\* tuple, holding a reference to the Deallocator.
NoLinked == [open |-> FALSE, values |-> <<>>, added |-> 0, failed |-> FALSE,
             converted |-> FALSE]

NoRpa == [attachments |-> <<>>, subpasses |-> <<>>, refs |-> 0]

NoRenderPass == [made |-> FALSE]

NoBuilder == [type |-> "none"]

NoPipeline == [state |-> "none"]

InitAsm ==
    /\ linked = NoLinked
    /\ rpa = NoRpa
    /\ subs = <<>>
    /\ produced = NoRenderPass
    /\ builder = NoBuilder
    /\ pipeline = NoPipeline

\* ---------------------------------------------------- LinkedDeviceAllocator
\* bind(device, properties, dal)
bind ==
    /\ linked' = [NoLinked EXCEPT !.open = TRUE]
    /\ UNCHANGED <<rpa, subs, produced, builder, pipeline>>
    /\ UNCHANGED ownVars
    /\ UNCHANGED frameVars
    /\ UNCHANGED utilVars

\* LinkedDeviceAllocator::buffer / ::image:
\*     auto buffer = littlevk::buffer(device, properties, args...).unwrap(dal);
\*     return {device, properties, dal, tuple_cat(*this, make_tuple(buffer))};
\* littlevk::buffer and littlevk::image never return a failed proxy: a
\* creation or allocation that fails throws, and the exception leaves the
\* chain.  The record of a created resource goes straight into dal.
linked_step(ok) ==
    /\ linked.open
    /\ ncommit < MaxCommits
    /\ IF ok
       THEN LET proxy == DeviceReturnProxyValue(nextHandle) IN
            /\ device_deallocators' = Pushed(proxy, device_deallocators)
            /\ ret' = Returned(proxy)
            /\ nextHandle' = nextHandle + 1
            /\ linked' = [linked EXCEPT !.values = Append(@, Returned(proxy)),
                                        !.added = @ + 1]
       ELSE /\ linked' = [linked EXCEPT !.open = FALSE, !.failed = TRUE]
            /\ UNCHANGED <<device_deallocators, ret, nextHandle>>
    /\ ncommit' = ncommit + 1
    /\ lastOp' = [NoOp EXCEPT !.op = "linked_step", !.failed = ~ok,
                              !.predev = device_deallocators]
    /\ UNCHANGED <<proxies, localq, destroyed, uses, localSubs, localFailed>>
    /\ UNCHANGED <<rpa, subs, produced, builder, pipeline>>
    /\ UNCHANGED frameVars
    /\ UNCHANGED utilVars

\* operator const auto &(): the single resource when the tuple has one
\* element, the whole tuple otherwise.  It touches no queue.
linked_get ==
    /\ linked.open
    /\ linked.values # <<>>
    /\ ~linked.converted
    /\ ret' = IF Len(linked.values) = 1 THEN linked.values[1] ELSE linked.values
    /\ linked' = [linked EXCEPT !.converted = TRUE]
    /\ lastOp' = [NoOp EXCEPT !.op = "linked_get", !.predev = device_deallocators]
    /\ UNCHANGED <<proxies, nextHandle, device_deallocators, localq, destroyed,
                   uses, localSubs, localFailed, ncommit>>
    /\ UNCHANGED <<rpa, subs, produced, builder, pipeline>>
    /\ UNCHANGED frameVars
    /\ UNCHANGED utilVars

NextLinked ==
    \/ bind
    \/ \E ok \in BOOLEAN : linked_step(ok)
    \/ linked_get
    \/ drop

\* -------------------------------------------------------- RenderPassAssembler
\* The caller's i-th attachment description (a0, a1, ...) is modelled by its
\* ordinal i.  An attachment reference is vk::AttachmentReference
\* { attachment, layout }.
AttachmentReference(attachment, layout) ==
    [attachment |-> attachment, layout |-> layout]

NoReference == [attachment |-> -1, layout |-> "none"]

\* What a read through a pointer into a destroyed SubpassAssembler can give
\* besides the old contents.
GarbageReference == [attachment |-> -1, layout |-> "garbage"]

\* SubpassAssembler(parent, bindpoint): empty inputs and colors, no depth.
SubpassAssembler ==
    [inputs |-> <<>>, colors |-> <<>>, depth |-> NoReference,
     alive |-> TRUE, done |-> FALSE]

\* The reference data of a subpass.
SubpassData(inputs, colors, depth) ==
    [inputs |-> inputs, colors |-> colors, depth |-> depth]

\* attachments.push_back(description);
add_attachment ==
    /\ Len(rpa.attachments) < MaxAttachments
    /\ rpa' = [rpa EXCEPT !.attachments = Append(@, Len(@))]
    /\ UNCHANGED <<linked, subs, produced, builder, pipeline>>
    /\ UNCHANGED ownVars
    /\ UNCHANGED frameVars
    /\ UNCHANGED utilVars

\* return SubpassAssembler(*this, bindpoint);   (returned by value)
add_subpass ==
    /\ Len(subs) < MaxSubpasses
    /\ subs' = Append(subs, SubpassAssembler)
    /\ UNCHANGED <<linked, rpa, produced, builder, pipeline>>
    /\ UNCHANGED ownVars
    /\ UNCHANGED frameVars
    /\ UNCHANGED utilVars

\* The reference calls are made on a live assembler before its done().
CanRefer(k) ==
    /\ subs[k].alive
    /\ ~subs[k].done
    /\ rpa.refs < MaxRefs

\* inputs.emplace_back(attachment, layout);
input_attachment(k, attachment) ==
    /\ CanRefer(k)
    /\ subs' = [subs EXCEPT ![k].inputs =
                    Append(@, AttachmentReference(attachment, "eShaderReadOnlyOptimal"))]
    /\ rpa' = [rpa EXCEPT !.refs = @ + 1]
    /\ UNCHANGED <<linked, produced, builder, pipeline>>
    /\ UNCHANGED ownVars
    /\ UNCHANGED frameVars
    /\ UNCHANGED utilVars

\* colors.emplace_back(attachment, layout);
color_attachment(k, attachment) ==
    /\ CanRefer(k)
    /\ subs' = [subs EXCEPT ![k].colors =
                    Append(@, AttachmentReference(attachment, "eColorAttachmentOptimal"))]
    /\ rpa' = [rpa EXCEPT !.refs = @ + 1]
    /\ UNCHANGED <<linked, produced, builder, pipeline>>
    /\ UNCHANGED ownVars
    /\ UNCHANGED frameVars
    /\ UNCHANGED utilVars

\* depth = vk::AttachmentReference(attachment, layout);
depth_attachment(k, attachment) ==
    /\ CanRefer(k)
    /\ subs' = [subs EXCEPT ![k].depth =
                    AttachmentReference(attachment, "eDepthStencilAttachmentOptimal")]
    /\ rpa' = [rpa EXCEPT !.refs = @ + 1]
    /\ UNCHANGED <<linked, produced, builder, pipeline>>
    /\ UNCHANGED ownVars
    /\ UNCHANGED frameVars
    /\ UNCHANGED utilVars

\* parent.subpasses.push_back(vk::SubpassDescription { {}, bindpoint, inputs,
\*     colors, {}, depth ? &(*depth) : nullptr, {} });
\* The description holds the element counts and pointers into this
\* SubpassAssembler's inputs, colors and depth; `specified` remembers what
\* the caller had given at this point.
done(k) ==
    /\ subs[k].alive
    /\ ~subs[k].done
    /\ rpa' = [rpa EXCEPT !.subpasses =
                  Append(@, [sub |-> k,
                             specified |-> SubpassData(subs[k].inputs,
                                                       subs[k].colors,
                                                       subs[k].depth)])]
    /\ subs' = [subs EXCEPT ![k].done = TRUE]
    /\ UNCHANGED <<linked, produced, builder, pipeline>>
    /\ UNCHANGED ownVars
    /\ UNCHANGED frameVars
    /\ UNCHANGED utilVars

\* The lifetime of a SubpassAssembler ends: a temporary at the end of the
\* full expression that called add_subpass, a named one at the end of its
\* scope.  Nothing in the RenderPassAssembler keeps it.
sub_destroyed(k) ==
    /\ subs[k].alive
    /\ subs' = [subs EXCEPT ![k].alive = FALSE]
    /\ UNCHANGED <<linked, rpa, produced, builder, pipeline>>
    /\ UNCHANGED ownVars
    /\ UNCHANGED frameVars
    /\ UNCHANGED utilVars

\* What createRenderPass reads through the k-th subpass description.  The
\* description keeps the counts and the depth pointer's nullness by value;
\* the references themselves are read from the SubpassAssembler: its data
\* while it lives, and anything once it is destroyed.
SubpassRead(k, garbled) ==
    LET a == subs[rpa.subpasses[k].sub] IN
    IF ~a.alive /\ garbled
    THEN SubpassData([i \in 1 .. Len(a.inputs) |-> GarbageReference],
                     [i \in 1 .. Len(a.colors) |-> GarbageReference],
                     IF a.depth = NoReference THEN NoReference
                                              ELSE GarbageReference)
    ELSE SubpassData(a.inputs, a.colors, a.depth)

\* operator vk::RenderPass():
\*     return littlevk::render_pass(device, attachments, subpasses,
\*                                  dependencies).unwrap(dal);
make_render_pass(ok) ==
    /\ ~produced.made
    /\ \E garbled \in [1 .. Len(rpa.subpasses) -> BOOLEAN] :
        /\ \A k \in 1 .. Len(rpa.subpasses) :
              garbled[k] => ~subs[rpa.subpasses[k].sub].alive
        /\ produced' = [made |-> TRUE,
                        failed |-> ~ok,
                        attachments |-> rpa.attachments,
                        specified |-> [k \in 1 .. Len(rpa.subpasses) |->
                                          rpa.subpasses[k].specified],
                        subpasses |-> [k \in 1 .. Len(rpa.subpasses) |->
                                          SubpassRead(k, garbled[k])]]
    /\ LET proxy == CreateResult(ok, nextHandle) IN
        /\ device_deallocators' = Pushed(proxy, device_deallocators)
        /\ ret' = Returned(proxy)
        /\ lastOp' = [NoOp EXCEPT !.op = "unwrap", !.failed = proxy.failed,
                                  !.pvalue = proxy.value,
                                  !.predev = device_deallocators,
                                  !.prelocal = localq]
    /\ nextHandle' = IF ok THEN nextHandle + 1 ELSE nextHandle
    /\ UNCHANGED <<proxies, localq, destroyed, uses, localSubs, localFailed,
                   ncommit>>
    /\ UNCHANGED <<linked, rpa, subs, builder, pipeline>>
    /\ UNCHANGED frameVars
    /\ UNCHANGED utilVars

NextRenderPass ==
    \/ add_attachment
    \/ add_subpass
    \/ \E k \in DOMAIN subs, a \in 0 .. (MaxAttachments - 1) : input_attachment(k, a)
    \/ \E k \in DOMAIN subs, a \in 0 .. (MaxAttachments - 1) : color_attachment(k, a)
    \/ \E k \in DOMAIN subs, a \in 0 .. (MaxAttachments - 1) : depth_attachment(k, a)
    \/ \E k \in DOMAIN subs : done(k)
    \/ \E k \in DOMAIN subs : sub_destroyed(k)
    \/ \E ok \in BOOLEAN : make_render_pass(ok)
    \/ drop

\* ---------------------------------------------------------- PipelineAssembler
PipelineTypes == {"eGraphics", "eCompute"}

\* The descriptor types a caller declares here, each with the stage it is
\* declared for.
DescriptorTypes == {"eCombinedImageSampler", "eUniformBuffer"}

\* vk::DescriptorSetLayoutBinding { binding, type, count, stage }
DescriptorSetLayoutBinding(binding, type) ==
    [binding |-> binding, type |-> type, count |-> 1,
     stage |-> IF type = "eUniformBuffer" THEN "eVertex" ELSE "eFragment"]

\* The optional bundle of the assembler: not set, set to a ShaderStageBundle
\* whose stages vector is empty, or to one that has stages.
Bundles == {"none", "empty", "stages"}

\* PipelineAssembler(device, [window,] dal): no bundle, no bindings.
new_assembler(type) ==
    /\ builder.type = "none"
    /\ builder' = [type |-> type, bundle |-> "none", dsl_bindings |-> <<>>]
    /\ UNCHANGED <<linked, rpa, subs, produced, pipeline>>
    /\ UNCHANGED ownVars
    /\ UNCHANGED frameVars
    /\ UNCHANGED utilVars

\* bundle = sb;
with_shader_bundle(b) ==
    /\ builder.type # "none"
    /\ builder' = [builder EXCEPT !.bundle = b]
    /\ UNCHANGED <<linked, rpa, subs, produced, pipeline>>
    /\ UNCHANGED ownVars
    /\ UNCHANGED frameVars
    /\ UNCHANGED utilVars

\* dsl_bindings.emplace_back(binding, type, count, stage);
with_dsl_binding(binding, type) ==
    /\ builder.type # "none"
    /\ Len(builder.dsl_bindings) < MaxBindings
    /\ builder' = [builder EXCEPT !.dsl_bindings =
                       Append(@, DescriptorSetLayoutBinding(binding, type))]
    /\ UNCHANGED <<linked, rpa, subs, produced, pipeline>>
    /\ UNCHANGED ownVars
    /\ UNCHANGED frameVars
    /\ UNCHANGED utilVars

\* for (auto &dslb : dsl_bindings) pipeline.bindings[dslb.binding] = dslb;
\* Only the graphics compile() has this loop.
RECURSIVE BindingMapOf(_)
BindingMapOf(bs) ==
    IF bs = <<>> THEN <<>>
    ELSE LET m == BindingMapOf(SubSeq(bs, 1, Len(bs) - 1))
             b == bs[Len(bs)]
         IN [x \in (DOMAIN m) \cup {b.binding} |->
                IF x = b.binding THEN b ELSE m[x]]

BindingMap(type, bs) == IF type = "eGraphics" THEN BindingMapOf(bs) ELSE <<>>

\* What the call has created, in order, given how each creation went.
CreatedBy(steps) ==
    (IF steps.dsl = "ok" THEN <<"dsl">> ELSE <<>>)
        \o (IF steps.layout = "ok" THEN <<"layout">> ELSE <<>>)
        \o (IF steps.pipe = "ok" THEN <<"pipeline">> ELSE <<>>)

\* Where the configuration error of a missing or empty shader-stage bundle
\* is raised: bundle.value() throws std::bad_optional_access when no bundle
\* was set; pipeline::compile(GraphicsCreateInfo) logs "Empty shader stages"
\* and goes on; the compute compile() takes stages.front() unchecked.
ConfigError(type, bundle) ==
    IF bundle = "none" THEN "bad_optional_access"
    ELSE IF bundle = "empty" /\ type = "eGraphics" THEN "empty_stages"
    ELSE "none"

\* Pipeline PipelineAssembler::compile() const
\*   1. if (dsl_bindings.size()) dsl = descriptor_set_layout(...).unwrap(dal);
\*   2. pipeline.layout = pipeline_layout(...).unwrap(dal);
\*   3. bundle.value().get().stages  /  .stages.front()
\*   4. pipeline.handle = pipeline::compile(device, pipeline_info).unwrap(dal);
\*   5. (graphics) the binding map
\* descriptor_set_layout and pipeline_layout return a failed proxy when the
\* creation fails; createGraphicsPipeline / createComputePipeline throw.
compile(dslOk, layoutOk, pipeOk) ==
    /\ builder.type # "none"
    /\ pipeline.state = "none"
    /\ LET hasDsl == Len(builder.dsl_bindings) > 0
           p1 == CreateResult(dslOk, nextHandle)
           dev1 == IF hasDsl THEN Pushed(p1, device_deallocators)
                             ELSE device_deallocators
           h1 == IF hasDsl /\ dslOk THEN nextHandle + 1 ELSE nextHandle
           p2 == CreateResult(layoutOk, h1)
           dev2 == Pushed(p2, dev1)
           h2 == IF layoutOk THEN h1 + 1 ELSE h1
           error == ConfigError(builder.type, builder.bundle)
           reached == error # "bad_optional_access"
           p3 == DeviceReturnProxyValue(h2)
           made == reached /\ pipeOk
           dev3 == IF made THEN Pushed(p3, dev2) ELSE dev2
           h3 == IF made THEN h2 + 1 ELSE h2
           steps == [dsl |-> IF ~hasDsl THEN "none"
                             ELSE IF dslOk THEN "ok" ELSE "failed",
                     layout |-> IF layoutOk THEN "ok" ELSE "failed",
                     pipe |-> IF ~reached THEN "none"
                              ELSE IF pipeOk THEN "ok" ELSE "failed"]
       IN
        /\ device_deallocators' = dev3
        /\ nextHandle' = h3
        /\ ret' = IF made THEN Returned(p3) ELSE ret
        /\ pipeline' =
              [state |-> IF made THEN "returned" ELSE "threw",
               type |-> builder.type,
               handle |-> IF made THEN Returned(p3) ELSE NullHandle,
               layout |-> Returned(p2),
               dsl |-> IF hasDsl THEN Returned(p1) ELSE NullHandle,
               bindings |-> IF made THEN BindingMap(builder.type, builder.dsl_bindings)
                                    ELSE <<>>,
               \* history
               declared |-> builder.dsl_bindings,
               steps |-> steps,
               added |-> SubSeq(dev3, Len(device_deallocators) + 1, Len(dev3)),
               error |-> error,
               createdAtError |-> IF error = "none" THEN <<>>
                                  ELSE CreatedBy([steps EXCEPT !.pipe = "none"]),
               addedAtError |-> IF error = "none" THEN 0
                                ELSE Len(dev2) - Len(device_deallocators)]
        /\ lastOp' = [NoOp EXCEPT !.op = "compile", !.predev = device_deallocators]
    /\ UNCHANGED <<proxies, localq, destroyed, uses, localSubs, localFailed,
                   ncommit>>
    /\ UNCHANGED <<linked, rpa, subs, produced, builder>>
    /\ UNCHANGED frameVars
    /\ UNCHANGED utilVars

NextPipeline ==
    \/ \E type \in PipelineTypes : new_assembler(type)
    \/ \E b \in Bundles \ {"none"} : with_shader_bundle(b)
    \/ \E binding \in 0 .. (MaxBindings - 1), type \in DescriptorTypes :
          with_dsl_binding(binding, type)
    \/ \E dslOk \in BOOLEAN, layoutOk \in BOOLEAN, pipeOk \in BOOLEAN :
          compile(dslOk, layoutOk, pipeOk)
    \/ drop

\* ======================================================================
\* Utilities
\* ======================================================================

\* No call of find_memory_type is in progress.
NoMem == [called |-> FALSE]

\* No one-shot submission is going on and the device's queues are empty.
NoOnce == [pc |-> "off", variant |-> "none", cmd |-> "none", queue |-> <<>>,
           others |-> 0, calls |-> 0, order |-> <<>>, atFree |-> "none",
           pendingAtReturn |-> FALSE]

\* No Swapchain has been created.
NoSwapchain == [made |-> FALSE]

\* static global_instance / global_messenger (initialized = false), the
\* configuration as the program set it, and nothing created or destroyed.
NoCall == [op |-> "none", wasInitialized |-> FALSE, made |-> 0, reads |-> 0,
           threw |-> FALSE, validation |-> FALSE, ret |-> 0]

NoInstance == [initialized |-> FALSE, instance |-> 0,
               messenger_initialized |-> FALSE, messenger |-> 0, messenger_of |-> 0,
               enable_validation_layers |-> FALSE,
               next |-> 1, created |-> <<>>, destroyed |-> <<>>,
               exited |-> FALSE, last |-> NoCall]

NoAcquire == [called |-> FALSE]

\* ------------------------------------------------------------ find_memory_type
\* vk::MemoryPropertyFlags as an integer bit mask; the combinations of
\* eDeviceLocal (0x1) and eHostVisible (0x2).
MemoryPropertyFlags == 0 .. 3

\* uint32_t(~0) and std::numeric_limits<uint32_t>::max(): all 32 bits set.
\* Integers here are 32 bits wide and signed; that bit pattern reads -1.
Uint32AllOnes == -1

\* a & b on unsigned integers
RECURSIVE BitAnd(_, _)
BitAnd(a, b) ==
    IF a = 0 \/ b = 0 THEN 0
    ELSE (a % 2) * (b % 2) + 2 * BitAnd(a \div 2, b \div 2)

TypeMatchesAnyFlag(type_filter, propertyFlags, properties) ==
    /\ type_filter % 2 = 1
    /\ BitAnd(propertyFlags, properties) # 0

\* (type_filter & 1) &&
\* (mem_props.memoryTypes[i].propertyFlags & properties) == properties
TypeMatches(type_filter, propertyFlags, properties) ==
    /\ type_filter % 2 = 1
    /\ BitAnd(propertyFlags, properties) = properties

\* for (uint32_t i = 0; i < mem_props.memoryTypeCount; i++) {
\*     if (...) { type_index = i; break; }
\*     type_filter >>= 1;
\* }
RECURSIVE TypeIndexFrom(_, _, _, _)
TypeIndexFrom(mem_props, type_filter, properties, i) ==
    IF ~(i < mem_props.memoryTypeCount) THEN Uint32AllOnes
    ELSE IF TypeMatches(type_filter, mem_props.memoryTypes[i], properties) THEN i
    ELSE TypeIndexFrom(mem_props, type_filter \div 2, properties, i + 1)

\* find_memory_type(mem_props, type_filter, properties): the value returned
\* and whether microlog::error was called (it prints and returns).
find_memory_type(mem_props, type_filter, properties) ==
    LET type_index == TypeIndexFrom(mem_props, type_filter, properties, 0) IN
    IF type_index = Uint32AllOnes
    THEN [value |-> Uint32AllOnes, error |-> TRUE]
    ELSE [value |-> type_index, error |-> FALSE]

\* The arguments of a call: a vk::PhysicalDeviceMemoryProperties whose
\* memoryTypes array has MaxTypes entries of which the first memoryTypeCount
\* are meaningful, a filter of MaxTypes bits and the requested flags.
InitMem ==
    \E memoryTypeCount \in 0 .. MaxTypes,
       memoryTypes \in [0 .. (MaxTypes - 1) -> MemoryPropertyFlags],
       type_filter \in 0 .. (2 ^ MaxTypes - 1),
       properties \in MemoryPropertyFlags :
        mem = [called |-> FALSE,
               mem_props |-> [memoryTypeCount |-> memoryTypeCount,
                              memoryTypes |-> memoryTypes],
               type_filter |-> type_filter,
               properties |-> properties]

call_find_memory_type ==
    /\ ~mem.called
    /\ "mem_props" \in DOMAIN mem
    /\ LET r == find_memory_type(mem.mem_props, mem.type_filter, mem.properties) IN
        mem' = [called |-> TRUE, mem_props |-> mem.mem_props,
                type_filter |-> mem.type_filter, properties |-> mem.properties,
                value |-> r.value, error |-> r.error]
    /\ UNCHANGED <<once, sc, inst, acq>>
    /\ UNCHANGED ownVars
    /\ UNCHANGED frameVars
    /\ UNCHANGED asmVars

NextMemory ==
    \/ call_find_memory_type

\* ------------------------------------- submit_now / submit_and_wait
\* once.queue is the queue handed to the function: the work submitted to it
\* and not yet completed, oldest first ("cmd" is the one-shot command
\* buffer, "other" anything submitted before).  once.others counts the work
\* pending on the device's other queues.
OneShots == {"submit_now", "submit_and_wait"}

RECURSIVE Pending(_)
Pending(n) == IF n = 0 THEN <<>> ELSE Append(Pending(n - 1), "other")

InitOnce ==
    \E q \in 0 .. MaxPending, o \in 0 .. MaxPending :
        once = [NoOnce EXCEPT !.pc = "idle", !.queue = Pending(q), !.others = o]

InFlight(q) == \E k \in 1 .. Len(q) : q[k] = "cmd"

\* cmd = device.allocateCommandBuffers(...).front();
\* cmd.begin({ eOneTimeSubmit }); function(cmd); cmd.end();
once_record(variant) ==
    /\ once.pc = "idle"
    /\ once.calls < MaxCalls
    /\ once' = [once EXCEPT !.pc = "submit", !.variant = variant,
                            !.cmd = "executable", !.order = <<"record">>,
                            !.atFree = "none", !.pendingAtReturn = FALSE]
    /\ UNCHANGED <<mem, sc, inst, acq>>
    /\ UNCHANGED ownVars
    /\ UNCHANGED frameVars
    /\ UNCHANGED asmVars

\* (void) queue.submit(1, &submit_info, nullptr);
\* This overload returns the vk::Result, which is discarded: when the
\* submission is refused nothing is queued and the function goes on.
once_submit(ok) ==
    /\ once.pc = "submit"
    /\ once' = [once EXCEPT !.pc = "wait",
                            !.queue = IF ok THEN Append(@, "cmd") ELSE @,
                            !.cmd = IF ok THEN "pending" ELSE @,
                            !.order = Append(@, "submit")]
    /\ UNCHANGED <<mem, sc, inst, acq>>
    /\ UNCHANGED ownVars
    /\ UNCHANGED frameVars
    /\ UNCHANGED asmVars

OneShotWaitSkipped(variant, q, o) == TRUE

\* queue.waitIdle() (submit_now) returns once the queue has no work left;
\* device.waitIdle() (submit_and_wait) once no queue of the device has.
OneShotWaitReturns(variant, q, o) ==
    IF variant = "submit_now" THEN q = <<>> ELSE q = <<>> /\ o = 0

\* queue.waitIdle();   or   device.waitIdle();
once_wait ==
    /\ once.pc = "wait"
    /\ OneShotWaitReturns(once.variant, once.queue, once.others)
    /\ once' = [once EXCEPT
                  !.pc = IF once.variant = "submit_now" THEN "free" ELSE "return",
                  !.order = Append(@, "wait")]
    /\ UNCHANGED <<mem, sc, inst, acq>>
    /\ UNCHANGED ownVars
    /\ UNCHANGED frameVars
    /\ UNCHANGED asmVars

\* waitIdle throws (vk::DeviceLostError): the exception leaves the function,
\* which neither frees the command buffer nor returns.
once_wait_throws ==
    /\ once.pc = "wait"
    /\ once' = [once EXCEPT !.pc = "thrown"]
    /\ UNCHANGED <<mem, sc, inst, acq>>
    /\ UNCHANGED ownVars
    /\ UNCHANGED frameVars
    /\ UNCHANGED asmVars

\* device.freeCommandBuffers(pool, 1, &cmd);   (submit_now only)
once_free ==
    /\ once.pc = "free"
    /\ once' = [once EXCEPT !.pc = "return", !.atFree = once.cmd,
                            !.cmd = "freed", !.order = Append(@, "free")]
    /\ UNCHANGED <<mem, sc, inst, acq>>
    /\ UNCHANGED ownVars
    /\ UNCHANGED frameVars
    /\ UNCHANGED asmVars

\* the function returns (submit_and_wait: return *this)
once_return ==
    /\ once.pc = "return"
    /\ once' = [once EXCEPT !.pc = "idle", !.calls = @ + 1,
                            !.pendingAtReturn = InFlight(once.queue)]
    /\ UNCHANGED <<mem, sc, inst, acq>>
    /\ UNCHANGED ownVars
    /\ UNCHANGED frameVars
    /\ UNCHANGED asmVars

\* The device completes the work at the front of the queue.
once_gpu ==
    /\ once.queue # <<>>
    /\ once' = [once EXCEPT
                  !.queue = Tail(@),
                  !.cmd = IF Head(once.queue) = "cmd" /\ @ = "pending"
                          THEN "completed" ELSE @]
    /\ UNCHANGED <<mem, sc, inst, acq>>
    /\ UNCHANGED ownVars
    /\ UNCHANGED frameVars
    /\ UNCHANGED asmVars

\* The device completes work on another of its queues.
once_gpu_other ==
    /\ once.others > 0
    /\ once' = [once EXCEPT !.others = @ - 1]
    /\ UNCHANGED <<mem, sc, inst, acq>>
    /\ UNCHANGED ownVars
    /\ UNCHANGED frameVars
    /\ UNCHANGED asmVars

NextOneShot ==
    \/ \E variant \in OneShots : once_record(variant)
    \/ \E ok \in BOOLEAN : once_submit(ok)
    \/ once_wait
    \/ once_wait_throws
    \/ once_free
    \/ once_return
    \/ once_gpu
    \/ once_gpu_other

\* ------------------------------------------------------ acquire_image alone
\* A call of acquire_image(device, swapchain, sync[frame]) for a swapchain
\* of image_count images: what acquireNextImageKHR reports and the index it
\* yields are the inputs; the fence of the slot is signaled, so that the
\* wait returns.
InitAcquire ==
    \E image_count \in 1 .. MaxCount :
      \E result \in AcquireResults, image_index \in SlotsOf(image_count),
         f \in SlotsOf(image_count) :
        acq = [called |-> FALSE, count |-> image_count, frame |-> f,
               result |-> result, image_index |-> image_index,
               fence |-> TRUE]

\* The call: it returns a SurfaceOperation, or an exception leaves it.
call_acquire_image ==
    /\ ~acq.called
    /\ "result" \in DOMAIN acq
    /\ acq.fence
    /\ acq' = IF Propagates(acq.result)
              THEN [called |-> TRUE, count |-> acq.count, frame |-> acq.frame,
                    result |-> acq.result, image_index |-> acq.image_index,
                    returned |-> FALSE,
                    outcome |-> SurfaceOperation("none", 0),
                    fence |-> acq.fence]
              ELSE LET o == AcquireOutcome(acq.result, acq.image_index) IN
                   [called |-> TRUE, count |-> acq.count, frame |-> acq.frame,
                    result |-> acq.result, image_index |-> acq.image_index,
                    returned |-> TRUE,
                    outcome |-> o,
                    fence |-> FenceAfterAcquire(o.status, acq.fence)]
    /\ UNCHANGED <<mem, once, sc, inst>>
    /\ UNCHANGED ownVars
    /\ UNCHANGED frameVars
    /\ UNCHANGED asmVars

NextAcquire ==
    \/ call_acquire_image

\* ------------------------------------------- swapchain / resize / destroy
\* struct Swapchain { format, handle, images, image_views, info }.
\* info.pQueueFamilyIndices is &indices.graphics, a pointer into the
\* QueueFamilyIndices object the caller handed to swapchain(); it is set
\* when the graphics and present families differ (eConcurrent).
\* sc.created and sc.destroyed list the native handles made and destroyed,
\* sc.first and sc.given what createSwapchainKHR read at the first and at
\* the latest creation.
Extents == {"e0", "e1"}

SharingModes == {"eExclusive", "eConcurrent"}

SwapchainCreateInfoKHR(extent, format, sharing) ==
    [imageExtent |-> extent, imageFormat |-> format,
     imageSharingMode |-> sharing,
     pQueueFamilyIndices |-> IF sharing = "eConcurrent" THEN "indices" ELSE "null"]

\* What createSwapchainKHR reads through the create info: the fields, and
\* through pQueueFamilyIndices the family indices.  Reading through the
\* pointer after the object it points into has gone is undefined: it may
\* still find the indices or anything else.
CreateInfoRead(info, alive, garbled) ==
    [imageExtent |-> info.imageExtent, imageFormat |-> info.imageFormat,
     imageSharingMode |-> info.imageSharingMode,
     queueFamilyIndices |->
         IF info.pQueueFamilyIndices = "null" THEN "none"
         ELSE IF alive \/ ~garbled THEN "indices"
         ELSE "garbage"]

Swapchain(h) == [kind |-> "swapchain", h |-> h]

ImageView(h) == [kind |-> "view", h |-> h]

\* for (i < images.size()) image_views.emplace_back(createImageView(...))
RECURSIVE ImageViews(_, _)
ImageViews(n, h) ==
    IF n = 0 THEN <<>> ELSE <<ImageView(h)>> \o ImageViews(n - 1, h + 1)

\* swapchain.image_views.clear(); then the loop above
ViewsReplaced(old, new) == new

\* littlevk::swapchain(phdev, device, surface, extent, indices, ...)
swapchain(extent, sharing, n) ==
    /\ ~sc.made
    /\ LET info == SwapchainCreateInfoKHR(extent, "eB8G8R8A8Unorm", sharing)
           views == ImageViews(n, 2)
       IN sc' = [made |-> TRUE,
                 format |-> "eB8G8R8A8Unorm",
                 handle |-> Swapchain(1),
                 images |-> n,
                 image_views |-> views,
                 info |-> info,
                 indicesAlive |-> TRUE,
                 next |-> n + 2,
                 created |-> <<Swapchain(1)>> \o views,
                 destroyed |-> <<>>,
                 first |-> CreateInfoRead(info, TRUE, FALSE),
                 given |-> CreateInfoRead(info, TRUE, FALSE),
                 resizes |-> 0,
                 state |-> "live"]
    /\ UNCHANGED <<mem, once, inst, acq>>
    /\ UNCHANGED ownVars
    /\ UNCHANGED frameVars
    /\ UNCHANGED asmVars

\* The QueueFamilyIndices object handed to swapchain() ends its life: in
\* Skeleton::skeletonize it is the local queue_family, gone on return.
indices_destroyed ==
    /\ sc.made
    /\ sc.state = "live"
    /\ sc.indicesAlive
    /\ sc' = [sc EXCEPT !.indicesAlive = FALSE]
    /\ UNCHANGED <<mem, once, inst, acq>>
    /\ UNCHANGED ownVars
    /\ UNCHANGED frameVars
    /\ UNCHANGED asmVars

\* littlevk::resize(device, swapchain, extent): destroy the views and the
\* swapchain, set info.imageExtent, create the swapchain from info, fetch
\* its images, clear image_views and create one view per image.  When
\* createSwapchainKHR throws, the exception leaves resize with the
\* Swapchain still holding the destroyed handles.
resize(extent, ok, n, garbled) ==
    /\ sc.made
    /\ sc.state = "live"
    /\ sc.resizes < MaxResizes
    /\ LET gone == sc.image_views \o <<sc.handle>>
           info == [sc.info EXCEPT !.imageExtent = extent]
           views == ImageViews(n, sc.next + 1)
       IN IF ok
          THEN sc' = [sc EXCEPT
                        !.destroyed = @ \o gone,
                        !.info = info,
                        !.handle = Swapchain(sc.next),
                        !.images = n,
                        !.image_views = ViewsReplaced(@, views),
                        !.next = @ + n + 1,
                        !.created = @ \o <<Swapchain(sc.next)>> \o views,
                        !.given = CreateInfoRead(info, sc.indicesAlive, garbled),
                        !.resizes = @ + 1]
          ELSE sc' = [sc EXCEPT
                        !.destroyed = @ \o gone,
                        !.info = info,
                        !.state = "thrown"]
    /\ UNCHANGED <<mem, once, inst, acq>>
    /\ UNCHANGED ownVars
    /\ UNCHANGED frameVars
    /\ UNCHANGED asmVars

\* destroy_swapchain(device, swapchain)
destroy_swapchain ==
    /\ sc.made
    /\ sc.state = "live"
    /\ sc' = [sc EXCEPT !.destroyed = @ \o sc.image_views \o <<sc.handle>>,
                        !.state = "dropped"]
    /\ UNCHANGED <<mem, once, inst, acq>>
    /\ UNCHANGED ownVars
    /\ UNCHANGED frameVars
    /\ UNCHANGED asmVars

NextSwapchain ==
    \/ \E extent \in Extents, sharing \in SharingModes, n \in 1 .. MaxCount :
          swapchain(extent, sharing, n)
    \/ indices_destroyed
    \/ \E extent \in Extents, ok \in BOOLEAN, n \in 1 .. MaxCount,
          garbled \in BOOLEAN :
          resize(extent, ok, n, garbled)
    \/ destroy_swapchain

\* ------------------------------------ get_vulkan_instance / shutdown_now
Instance(h) == [kind |-> "instance", h |-> h, of |-> h]

DebugMessenger(h, instance) == [kind |-> "messenger", h |-> h, of |-> instance]

\* The program sets config().enable_validation_layers.
set_config(v) ==
    /\ ~inst.exited
    /\ inst.enable_validation_layers # v
    /\ inst' = [inst EXCEPT !.enable_validation_layers = v,
                            !.last = [NoCall EXCEPT !.op = "set_config"]]
    /\ UNCHANGED <<mem, once, sc, acq>>
    /\ UNCHANGED ownVars
    /\ UNCHANGED frameVars
    /\ UNCHANGED asmVars

NeverInitialized(g) == FALSE

\* if (global_instance.initialized) return global_instance.instance;
AlreadyInitialized(g) == g.initialized

\* get_vulkan_instance(): layersOk is what check_validation_layer_support
\* answers, instanceOk / messengerOk whether vk::createInstance and
\* createDebugUtilsMessengerEXT succeed (they throw otherwise, and the
\* exception leaves the function before initialized is set).
get_vulkan_instance(layersOk, instanceOk, messengerOk) ==
    /\ ~inst.exited
    /\ IF AlreadyInitialized(inst)
       THEN inst' = [inst EXCEPT
                       !.last = [NoCall EXCEPT !.op = "get",
                                               !.wasInitialized = inst.initialized,
                                               !.ret = inst.instance]]
       ELSE /\ inst.next + 1 <= 2 * MaxInstances
            /\ LET validation == inst.enable_validation_layers /\ layersOk
                   reads == IF inst.enable_validation_layers THEN 3 ELSE 2
                   i == inst.next
               IN IF ~instanceOk
                  THEN inst' = [inst EXCEPT
                          !.enable_validation_layers = validation,
                          !.last = [NoCall EXCEPT !.op = "get",
                                                  !.wasInitialized = inst.initialized,
                                                  !.reads = reads - 1,
                                                  !.threw = TRUE,
                                                  !.validation = validation]]
                  ELSE IF validation /\ ~messengerOk
                  THEN inst' = [inst EXCEPT
                          !.enable_validation_layers = validation,
                          !.instance = i,
                          !.next = i + 1,
                          !.created = Append(@, Instance(i)),
                          !.last = [NoCall EXCEPT !.op = "get",
                                                  !.wasInitialized = inst.initialized,
                                                  !.made = 1,
                                                  !.reads = reads,
                                                  !.threw = TRUE,
                                                  !.validation = validation]]
                  ELSE inst' = [inst EXCEPT
                          !.enable_validation_layers = validation,
                          !.instance = i,
                          !.initialized = TRUE,
                          !.messenger = IF validation THEN i + 1 ELSE @,
                          !.messenger_of = IF validation THEN i ELSE @,
                          !.messenger_initialized = IF validation THEN TRUE ELSE @,
                          !.next = IF validation THEN i + 2 ELSE i + 1,
                          !.created = IF validation
                                      THEN @ \o <<Instance(i), DebugMessenger(i + 1, i)>>
                                      ELSE Append(@, Instance(i)),
                          !.last = [NoCall EXCEPT !.op = "get",
                                                  !.wasInitialized = inst.initialized,
                                                  !.made = IF validation THEN 2 ELSE 1,
                                                  !.reads = reads,
                                                  !.validation = validation,
                                                  !.ret = i]]
    /\ UNCHANGED <<mem, once, sc, acq>>
    /\ UNCHANGED ownVars
    /\ UNCHANGED frameVars
    /\ UNCHANGED asmVars

\* shutdown_now(): the messenger, then the instance; each only when its
\* initialized flag is set, and the flag is cleared.
shutdown_now ==
    /\ ~inst.exited
    /\ LET m == IF inst.messenger_initialized
                THEN <<DebugMessenger(inst.messenger, inst.messenger_of)>> ELSE <<>>
           i == IF inst.initialized THEN <<Instance(inst.instance)>> ELSE <<>>
       IN inst' = [inst EXCEPT !.destroyed = @ \o m \o i,
                               !.messenger_initialized = FALSE,
                               !.initialized = FALSE,
                               !.last = [NoCall EXCEPT !.op = "shutdown_now"]]
    /\ UNCHANGED <<mem, once, sc, acq>>
    /\ UNCHANGED ownVars
    /\ UNCHANGED frameVars
    /\ UNCHANGED asmVars

\* The program ends: ~debug_messenger_singleton() destroys the messenger
\* when it is initialized and the instance is; nothing destroys the
\* instance.
static_destruction ==
    /\ ~inst.exited
    /\ inst' = [inst EXCEPT
                  !.destroyed =
                      IF inst.messenger_initialized /\ inst.initialized
                      THEN Append(@, DebugMessenger(inst.messenger, inst.messenger_of))
                      ELSE @,
                  !.exited = TRUE,
                  !.last = [NoCall EXCEPT !.op = "exit"]]
    /\ UNCHANGED <<mem, once, sc, acq>>
    /\ UNCHANGED ownVars
    /\ UNCHANGED frameVars
    /\ UNCHANGED asmVars

NextInstance ==
    \/ \E v \in BOOLEAN : set_config(v)
    \/ \E layersOk \in BOOLEAN, instanceOk \in BOOLEAN, messengerOk \in BOOLEAN :
          get_vulkan_instance(layersOk, instanceOk, messengerOk)
    \/ shutdown_now
    \/ static_destruction

NextFrameLoop ==
    \/ LoopStart
    \/ LoopHead
    \/ Acquire
    \/ ResizeAtAcquire
    \/ Record
    \/ Submit
    \/ Present
    \/ ResizeAtPresent
    \/ Advance
    \/ LoopExit
    \/ CloseWindow
    \/ GpuExecute
    \/ GpuPresent

InitUtil ==
    /\ mem = NoMem
    /\ once = NoOnce
    /\ sc = NoSwapchain
    /\ inst = NoInstance
    /\ acq = NoAcquire

InitLoop == InitOwn /\ InitFrame /\ InitAsm /\ InitUtil

SpecFrame == InitLoop /\ [][NextFrameLoop]_vars

\* The loop with a device that makes progress: the graphics queue runs the
\* submission at its front whenever that submission can run, and the
\* loop's thread returns from waitForFences once the fence is signaled.
SpecFrameLive ==
    /\ InitLoop
    /\ [][NextFrameLoop]_vars
    /\ WF_vars(GpuExecute)
    /\ WF_vars(Acquire)

InitDealloc == InitOwn /\ InitIdle /\ InitAsm /\ InitUtil

SpecOwn == InitDealloc /\ [][NextOwn]_vars

SpecComposed == InitDealloc /\ [][NextComposed]_vars

SpecLinked == InitDealloc /\ [][NextLinked]_vars

SpecRenderPass == InitDealloc /\ [][NextRenderPass]_vars

SpecPipeline == InitDealloc /\ [][NextPipeline]_vars

InitMemory ==
    /\ InitOwn /\ InitIdle /\ InitAsm
    /\ InitMem
    /\ once = NoOnce
    /\ sc = NoSwapchain
    /\ inst = NoInstance
    /\ acq = NoAcquire

SpecMemory == InitMemory /\ [][NextMemory]_vars

InitOneShot ==
    /\ InitOwn /\ InitIdle /\ InitAsm
    /\ mem = NoMem
    /\ InitOnce
    /\ sc = NoSwapchain
    /\ inst = NoInstance
    /\ acq = NoAcquire

SpecOneShot == InitOneShot /\ [][NextOneShot]_vars

InitAcquireAlone ==
    /\ InitOwn /\ InitIdle /\ InitAsm
    /\ mem = NoMem
    /\ once = NoOnce
    /\ sc = NoSwapchain
    /\ inst = NoInstance
    /\ InitAcquire

SpecAcquire == InitAcquireAlone /\ [][NextAcquire]_vars

SpecSwapchain == InitDealloc /\ [][NextSwapchain]_vars

SpecInstance == InitDealloc /\ [][NextInstance]_vars


\* ======================================================================
\* Claims about the ownership / deallocation model
\* (checked under SpecOwn or SpecComposed)
\* ======================================================================
CommitOps == {"unwrap", "defer", "composed_unwrap", "composed_defer"}

\* The non-failed device proxies that were committed to the device queue.
Committed ==
    {i \in Slots : proxies[i].kind = "device" /\ ~proxies[i].failed /\ uses[i] >= 1}

\* Every proxy was consumed at most once, and every consuming call so far
\* was an unwrap (nothing was staged into a transient queue).
EachCommittedOnce ==
    /\ \A i \in Slots : uses[i] <= 1
    /\ localSubs = 0

\* C1: after M successful creations, each committed once by unwrap to the
\* device queue, drop() runs exactly M destructors, one per committed
\* resource and each exactly once, and leaves device_deallocators empty.
C1_QueueDraining ==
    (lastOp.op = "drop" /\ EachCommittedOnce) =>
        /\ device_deallocators = <<>>
        /\ Len(destroyed) = Cardinality(Committed)
        /\ \A i \in Committed : Count(destroyed, proxies[i].value) = 1

C1_Witness ==
    /\ lastOp.op = "drop"
    /\ EachCommittedOnce
    /\ Cardinality(Committed) >= 2
    /\ Len(lastOp.predev) >= 2

\* C2: consuming a proxy whose failed flag is set (unwrap or defer, Return
\* Proxy or Composed Proxy) returns the zero value and leaves both the
\* device queue and the transient queue exactly as they were.
C2_FailedRegistersNothing ==
    (lastOp.op \in CommitOps /\ lastOp.failed) =>
        /\ ret = NullHandle
        /\ device_deallocators = lastOp.predev
        /\ localq = lastOp.prelocal

C2_Witness ==
    /\ lastOp.op = "unwrap"
    /\ lastOp.failed
    /\ device_deallocators # <<>>

\* C3 (as claimed): committing a Composed Proxy built from sub-allocations
\* of which at least one failed registers no record in the target queue.
C3_ComposedAllOrNothing ==
    (lastOp.op \in {"composed_unwrap", "composed_defer"} /\ lastOp.subfail > 0) =>
        /\ device_deallocators = lastOp.predev
        /\ localq = lastOp.prelocal

\* C4: committing a non-failed Composed Proxy holding K records appends
\* exactly those K records, in order, behind the records already in the
\* target queue, empties the proxy's queue and returns its value; committing
\* a non-failed Return Proxy appends exactly its one record.
C4_CommitAppends ==
    (lastOp.op \in CommitOps /\ ~lastOp.failed) =>
        /\ ret = lastOp.pvalue
        /\ lastOp.op = "composed_unwrap" =>
              /\ device_deallocators = lastOp.predev \o lastOp.pqueue
              /\ localq = lastOp.prelocal
              /\ proxies[lastOp.pid].queue = <<>>
        /\ lastOp.op = "composed_defer" =>
              /\ localq = lastOp.prelocal \o lastOp.pqueue
              /\ device_deallocators = lastOp.predev
              /\ proxies[lastOp.pid].queue = <<>>
        /\ lastOp.op = "unwrap" =>
              /\ device_deallocators = Append(lastOp.predev, lastOp.pvalue)
              /\ localq = lastOp.prelocal
        /\ lastOp.op = "defer" =>
              /\ localq = Append(lastOp.prelocal, lastOp.pvalue)
              /\ device_deallocators = lastOp.predev

C4_Witness ==
    /\ lastOp.op = "composed_unwrap"
    /\ ~lastOp.failed
    /\ Len(lastOp.pqueue) >= 2
    /\ lastOp.pqueue[1] # lastOp.pqueue[2]
    /\ lastOp.predev # <<>>

\* Every record that exists or has been executed, wherever it is now.
RECURSIVE QueuesOf(_)
QueuesOf(n) == IF n = 0 THEN <<>> ELSE QueuesOf(n - 1) \o proxies[n].queue

AllRecords == device_deallocators \o localq \o QueuesOf(Len(proxies)) \o destroyed

\* C5 (as claimed): whatever consuming calls are made on a Return Proxy, at
\* most one Deallocation Record for its resource is ever registered, and
\* drop() never destroys the same handle twice.
C5_SingleUse ==
    \A i \in Slots :
        (proxies[i].kind = "device" /\ ~proxies[i].failed) =>
            /\ Count(AllRecords, proxies[i].value) <= 1
            /\ Count(destroyed, proxies[i].value) <= 1

\* C6: drop() runs the records front to back: the destructor calls of one
\* drop() are the queue's records in registration order, also when records
\* were merged from a Composed Proxy.
C6_FifoOrder ==
    lastOp.op = "drop" => destroyed = lastOp.predestroyed \o lastOp.predev

C6_Witness ==
    /\ lastOp.op = "drop"
    /\ Len(lastOp.predev) >= 2
    /\ lastOp.predev[1] # lastOp.predev[2]
    /\ \E i \in Slots :
          proxies[i].kind = "composed" /\ proxies[i].subs >= 2 /\ uses[i] >= 1

\* ======================================================================
\* Claims about the frame loop (checked under SpecFrame)
\* ======================================================================

\* C7: starting from index 0, after S iterations that all succeeded
\* (acquire Ok, submit, present Ok) and no other iteration, the
\* frame-in-flight index is S mod count.
C7_FrameIndexCycles ==
    (pc = "head" /\ otherIters = 0) => frame = okIters % count

C7_Witness ==
    /\ pc = "head"
    /\ otherIters = 0
    /\ count >= 2
    /\ okIters > count

\* C8: in an iteration whose acquire yielded Resize the index stays what it
\* was when the iteration began, and the iteration neither calls the render
\* callback nor submits nor presents.
C8_ResizeShortCircuit ==
    it.acq = "eResize" =>
        /\ frame = it.start
        /\ ~it.rendered
        /\ ~it.submitted
        /\ ~it.presented

C8_Witness ==
    /\ pc = "head"
    /\ it.acq = "eResize"
    /\ it.start > 0
    /\ okIters > 0

\* C9: a Resize at acquire calls the resize callback exactly once before
\* the next acquire; the next iteration runs on the same slot, and the
\* slot's fence is signaled when that iteration waits on it, so the wait
\* returns.
C9_ResizeThenProceed ==
    /\ (it.acq = "eResize" /\ pc = "head") => it.resized = 1
    /\ prev.acq = "eResize" =>
        /\ prev.resized = 1
        /\ it.start = prev.start
        /\ pc = "acquire" => in_flight[frame]

C9_Witness ==
    /\ prev.acq = "eResize"
    /\ prev.start > 0
    /\ it.start = prev.start
    /\ it.acq = "eOk"
    /\ it.submitted
    /\ it.pres = "eOk"
    /\ pc = "head"

\* C10 (as claimed): the index advances, by (index + 1) mod count, only in
\* an iteration whose acquire and present both reported Ok; an iteration in
\* which acquire or present reported Resize or Failed leaves it unchanged.
C10_AdvanceOnlyOnSuccess ==
    (pc = "head" /\ it.acq # "none") =>
        IF it.acq = "eOk" /\ it.pres = "eOk"
            THEN frame = (it.start + 1) % count
            ELSE frame = it.start

\* C11 (as claimed): an iteration whose acquire yielded Failed does not
\* process the frame: it does not call the render callback, submits no
\* command buffer and requests no presentation (of image index 0).
C11_FailedNotProcessed ==
    it.acq = "eFailed" =>
        /\ ~it.rendered
        /\ ~it.submitted
        /\ ~it.presented

\* C12 (as claimed): whenever the command buffer of slot f has just been
\* re-recorded, the CPU has waited on the slot's fence in this iteration and
\* no submission made earlier for slot f is still in the graphics queue.
C12_NoRerecordWhilePending ==
    (pc = "submit" /\ it.rendered) =>
        /\ it.waited
        /\ \A k \in 1 .. Len(gpu) : gpu[k].slot # frame

\* C13 (as claimed): every submission waits on image_available, and signals
\* render_finished and in_flight, of its own slot, every presentation waits
\* on render_finished of its slot; and so the GPU executes an iteration's
\* submission only if that iteration's acquire made the image available,
\* and the present queue takes an iteration's image only after the GPU
\* executed its submission.
C13_SemaphoreOrder ==
    /\ \A k \in 1 .. Len(gpu) :
          gpu[k].wait = gpu[k].slot /\ gpu[k].signal = gpu[k].slot
              /\ gpu[k].fence = gpu[k].slot
    /\ \A k \in 1 .. Len(presents) : presents[k].wait = presents[k].slot
    /\ lastGpu.ordered

\* C14: a presentKHR that throws vk::OutOfDateKHRError yields eResize; the
\* resize callback for it runs exactly once, after the iteration's submit
\* and present request and never before them; a presentation that fails any
\* other way leaves the loop by its exception and is never reported as eOk.
C14_ResizeAfterPresent ==
    /\ it.result = "throwOutOfDate" => it.pres = "eResize"
    /\ (it.pres = "eResize" /\ pc \in {"advance", "head"}) => it.resized = 1
    /\ (it.acq # "eResize" /\ it.resized > 0) =>
          /\ it.resized = 1
          /\ it.submitted
          /\ it.presented
          /\ it.pres = "eResize"
    /\ it.pres = "eOk" => it.result = "returned"
    /\ Propagates(it.result) => (pc = "thrown" /\ it.pres = "thrown")

C14_Witness ==
    /\ pc = "head"
    /\ it.acq = "eOk"
    /\ it.submitted
    /\ it.pres = "eResize"
    /\ it.resized = 1
    /\ okIters > 0

\* C15: whenever the resize callback destroyed the old swapchain and its
\* image views, the graphics queue and the present queue were empty: every
\* submission made for any frame-in-flight slot had completed.
C15_ResizeWaitsIdle ==
    /\ ~it.busy
    /\ ~prev.busy
    /\ (it.resized > 0 /\ it.submitted) => \A k \in 1 .. Len(gpu) : gpu[k].iter # iter

C15_Witness ==
    /\ it.resized = 1
    /\ it.submitted
    /\ it.pres = "eResize"
    /\ lastGpu.kind = "wait"
    /\ count >= 2
    /\ iter >= 2

\* ======================================================================
\* Claims about the declarative assemblers
\* ======================================================================

\* C16 (as claimed): while a linked-allocator chain is being built none of
\* its steps has put a record into the device-owned queue, and a chain in
\* which a step succeeded and a later step failed has added no record.
C16_LinkedAtomic ==
    /\ (linked.open /\ ~linked.converted) => linked.added = 0
    /\ linked.failed => linked.added = 0

\* C17 (as claimed): when the render pass is produced, attachment a_i is at
\* index i, the subpasses are in the order of their done() calls, and each
\* subpass carries exactly the input, color and depth references (index and
\* layout) its caller had specified.
C17_AssemblerOrdering ==
    (produced.made /\ ~produced.failed) =>
        /\ \A i \in 1 .. Len(produced.attachments) : produced.attachments[i] = i - 1
        /\ produced.subpasses = produced.specified

\* C18 (as claimed): the binding map of a Pipeline returned by compile(),
\* graphics or compute, has exactly the declared binding indices as keys,
\* and each entry is a declared binding (type, count, stage) of that index.
C18_BindingMapExact ==
    pipeline.state = "returned" =>
        /\ DOMAIN pipeline.bindings =
              {pipeline.declared[i].binding : i \in 1 .. Len(pipeline.declared)}
        /\ \A x \in DOMAIN pipeline.bindings :
              \E i \in 1 .. Len(pipeline.declared) :
                  pipeline.declared[i] = pipeline.bindings[x]

\* C19 (as claimed): after compile() returned or failed, the device-owned
\* queue has gained one record for each object the call set out to create
\* when every creation succeeded, and no record at all when a creation step
\* failed or the call threw.
C19_CompileAtomic ==
    pipeline.state # "none" =>
        IF /\ pipeline.state = "returned"
           /\ pipeline.steps.dsl # "failed"
           /\ pipeline.steps.layout # "failed"
        THEN pipeline.added =
                 (IF pipeline.steps.dsl = "ok" THEN <<pipeline.dsl>> ELSE <<>>)
                     \o <<pipeline.layout, pipeline.handle>>
        ELSE pipeline.added = <<>>

\* C20 (as claimed): when the bundle is missing or its stage list is empty
\* (graphics), the configuration error is raised before anything was
\* created: at that point the call has created no descriptor-set layout,
\* no pipeline layout and no pipeline, and has registered no record.
C20_ConfigErrorFirst ==
    (pipeline.state # "none" /\ pipeline.error # "none") =>
        /\ pipeline.createdAtError = <<>>
        /\ pipeline.addedAtError = 0

\* ----------------------------------------------------------------------
\* C21.  find_memory_type returns the smallest index i < memoryTypeCount
\* such that bit i of type_filter is set and memoryTypes[i].propertyFlags
\* is a superset of properties; when there is no such index it reports the
\* error and returns the sentinel with all bits set, which is no valid
\* index.
BitsOf(n) == {b \in 0 .. 30 : (n \div (2 ^ b)) % 2 = 1}

MatchingTypes ==
    {i \in 0 .. (MaxTypes - 1) :
        /\ i < mem.mem_props.memoryTypeCount
        /\ (mem.type_filter \div (2 ^ i)) % 2 = 1
        /\ BitsOf(mem.properties) \subseteq BitsOf(mem.mem_props.memoryTypes[i])}

C21_FindMemoryType ==
    mem.called =>
        IF MatchingTypes # {}
        THEN /\ mem.value \in MatchingTypes
             /\ \A i \in MatchingTypes : mem.value <= i
             /\ ~mem.error
        ELSE /\ mem.value = Uint32AllOnes
             /\ mem.error
             /\ mem.value \notin 0 .. (MaxTypes - 1)

\* The first type is allowed by the filter but lacks a requested flag, and
\* the search went on to the second.
C21_Witness ==
    /\ mem.called
    /\ mem.type_filter % 2 = 1
    /\ mem.mem_props.memoryTypeCount >= 2
    /\ mem.value = 1

\* No type matches although the filter allows a type beyond memoryTypeCount.
C21_WitnessNone ==
    /\ mem.called
    /\ mem.error
    /\ mem.type_filter # 0

\* ----------------------------------------------------------------------
\* C22.  A one-shot submission (submit_now, submit_and_wait) returns only
\* after the work it submitted has completed on the queue, and submit_now
\* frees the command buffer only after that completion: the order is
\* record, submit, wait for idle, free.
C22_OneShotBlocks ==
    /\ once.pc \in {"free", "return"} => ~InFlight(once.queue)
    /\ ~once.pendingAtReturn
    /\ once.atFree # "pending"
    /\ once.cmd = "freed" => once.order = <<"record", "submit", "wait", "free">>
    /\ (once.pc = "return" /\ once.variant = "submit_and_wait")
           => once.order = <<"record", "submit", "wait">>

\* submit_now returned after a submission the queue accepted behind other
\* work: the command buffer had completed when it was freed.
C22_Witness ==
    /\ once.pc = "idle"
    /\ once.calls > 0
    /\ once.variant = "submit_now"
    /\ once.atFree = "completed"

\* submit_and_wait returned after an accepted submission.
C22_WitnessLinked ==
    /\ once.pc = "idle"
    /\ once.calls > 0
    /\ once.variant = "submit_and_wait"
    /\ once.cmd = "completed"

\* ----------------------------------------------------------------------
\* C23.  At every point of the driver loop the number of frames submitted
\* whose GPU work has not completed is at most the number of
\* frame-in-flight slots.
C23_BoundedDrift == Len(gpu) <= count

\* ----------------------------------------------------------------------
\* C28.  Whenever the loop submits with a slot's in-flight fence, that fence
\* is unsignaled: acquire_image reset it in the same iteration.
C28_SubmitFenceUnsignaled ==
    pc = "submit" => (it.acq = "eOk" /\ ~in_flight[SubmitInfo(frame).fence])

\* ----------------------------------------------------------------------
\* C24.  The loop repeats the frame state machine until the exit signal is
\* seen at the head of an iteration; once it was seen no acquire, submit or
\* present is performed, and the loop returns only after the device is
\* idle: no submitted frame is pending when it has returned.
LoopLeft == pc \in {"exit", "done"}

C24_ExitAfterIdle ==
    /\ [](pc = "done" => (gpu = <<>> /\ presents = <<>>))
    /\ [][(pc = "head" /\ pc' # "head")
             => (IF shouldClose THEN pc' = "exit" ELSE pc' = "acquire")]_vars
    /\ [][(~LoopLeft /\ LoopLeft') => (pc = "head" /\ shouldClose)]_vars
    /\ [][LoopLeft => (/\ LoopLeft'
                       /\ it' = it
                       /\ op' = op
                       /\ Len(gpu') <= Len(gpu)
                       /\ Len(presents') <= Len(presents))]_vars

\* The loop has returned after iterations that submitted and presented.
C24_Witness ==
    /\ pc = "done"
    /\ iter >= 2
    /\ it.submitted /\ it.presented
    /\ lastGpu.kind # "none"

\* ----------------------------------------------------------------------
\* C26.  acquire_image has exactly three outcomes: Resize if and only if
\* the acquisition reports the surface out of date (thrown or as a result
\* code), Ready with the acquired index if and only if the result is
\* success or suboptimal, Failed for everything else; every outcome other
\* than Ready carries index 0.
OutOfDate(result) == result \in {"throwOutOfDate", "eErrorOutOfDateKHR"}

Acquired(result) == result \in {"eSuccess", "eSuboptimalKHR"}

C26_AcquireOutcomes ==
    acq.called =>
        /\ acq.returned
        /\ acq.outcome.status \in {"eOk", "eResize", "eFailed"}
        /\ acq.outcome.status = "eResize" <=> OutOfDate(acq.result)
        /\ acq.outcome.status = "eOk" <=> Acquired(acq.result)
        /\ acq.outcome.status = "eFailed"
               <=> (~OutOfDate(acq.result) /\ ~Acquired(acq.result))
        /\ acq.outcome.status = "eOk" => acq.outcome.index = acq.image_index
        /\ acq.outcome.status # "eOk" => acq.outcome.index = 0

\* ----------------------------------------------------------------------
\* C25.  resize rebuilds the swapchain in place: the format and every
\* creation parameter other than the image extent stay as they were;
\* afterwards image_views holds exactly one view per image of the new
\* swapchain and no view the resize destroyed; over resizes followed by
\* destroy_swapchain every created view and swapchain handle is destroyed
\* exactly once.
InSeq(x, q) == \E k \in 1 .. Len(q) : q[k] = x

C25_ResizeInPlace ==
    (sc.made /\ sc.state # "thrown") =>
        /\ sc.format = sc.first.imageFormat
        /\ sc.given = [sc.first EXCEPT !.imageExtent = sc.info.imageExtent]
        /\ sc.state = "live" =>
              /\ Len(sc.image_views) = sc.images
              /\ \A k \in 1 .. Len(sc.image_views) :
                    /\ ~InSeq(sc.image_views[k], sc.destroyed)
                    /\ Count(sc.image_views, sc.image_views[k]) = 1
              /\ ~InSeq(sc.handle, sc.destroyed)
        /\ \A k \in 1 .. Len(sc.destroyed) : Count(sc.destroyed, sc.destroyed[k]) = 1
        /\ sc.state = "dropped" =>
              \A k \in 1 .. Len(sc.created) : Count(sc.destroyed, sc.created[k]) = 1

\* ----------------------------------------------------------------------
\* C27.  The graphics context is initialized lazily and once:
\* get_vulkan_instance creates the instance (and with validation enabled
\* the debug messenger) only when no instance is initialized, and otherwise
\* returns the existing one without reading the configuration; over any
\* calls of get_vulkan_instance and shutdown_now the messenger is
\* destroyed before its instance and neither is destroyed twice.
RECURSIVE IndexOf(_, _)
IndexOf(q, x) ==
    IF q = <<>> THEN 0
    ELSE IF Head(q) = x THEN 1
    ELSE IF IndexOf(Tail(q), x) = 0 THEN 0
    ELSE 1 + IndexOf(Tail(q), x)

C27_LazyOnce ==
    /\ (inst.last.op = "get" /\ inst.last.wasInitialized) =>
          /\ inst.last.made = 0
          /\ inst.last.reads = 0
          /\ inst.last.ret = inst.instance
          /\ inst.initialized
    /\ (inst.last.op = "get" /\ ~inst.last.wasInitialized /\ ~inst.last.threw) =>
          /\ inst.last.made = (IF inst.last.validation THEN 2 ELSE 1)
          /\ inst.messenger_initialized = inst.last.validation
          /\ inst.initialized
          /\ inst.last.ret = inst.instance
    /\ \A k \in 1 .. Len(inst.destroyed) :
          /\ Count(inst.destroyed, inst.destroyed[k]) = 1
          /\ InSeq(inst.destroyed[k], inst.created)
          /\ inst.destroyed[k].kind = "messenger" =>
                \A j \in 1 .. Len(inst.destroyed) :
                    (inst.destroyed[j] = Instance(inst.destroyed[k].of)) => k < j
    /\ \A k \in 1 .. Len(inst.created) :
          (/\ inst.created[k].kind = "messenger"
           /\ InSeq(Instance(inst.created[k].of), inst.destroyed))
              => InSeq(inst.created[k], inst.destroyed)

\* The context was created with validation, shut down, and asked for again
\* twice: the second request found it initialized.
C27_Witness ==
    /\ inst.last.op = "get"
    /\ inst.last.wasInitialized
    /\ Len(inst.destroyed) = 2
    /\ inst.messenger_initialized

\* ----------------------------------------------------------------------
\* C30.  Deallocator::drop() is idempotent: a second drop() with no commit
\* in between executes no destructor, and records committed after a drop()
\* are executed by the next drop() only: no record is executed by two
\* drops.
C30_DropIdempotent ==
    /\ [](lastOp.op = "drop" =>
            /\ device_deallocators = <<>>
            /\ destroyed = lastOp.predestroyed \o lastOp.predev)
    /\ [][(lastOp.op = "drop" /\ lastOp'.op = "drop") => destroyed' = destroyed]_vars
    /\ [][destroyed' # destroyed =>
            /\ lastOp'.op = "drop"
            /\ destroyed' = destroyed \o device_deallocators]_vars

\* A drop() that found the queue empty after an earlier drop() had run
\* destructors.
C30_Witness ==
    /\ lastOp.op = "drop"
    /\ lastOp.predev = <<>>
    /\ Len(destroyed) >= 2

\* A drop() that ran the records committed after an earlier drop().
C30_WitnessLater ==
    /\ lastOp.op = "drop"
    /\ lastOp.predev # <<>>
    /\ lastOp.predestroyed # <<>>

\* ----------------------------------------------------------------------
\* C29.  The frame loop never deadlocks on WaitPrevious: provided the GPU
\* eventually completes every submitted command buffer, every wait on a
\* slot's in-flight fence eventually returns, whatever the acquire outcomes
\* (Ready, Resize, Failed) were.
\* A submission the GPU never completes: it waits on a semaphore that no
\* acquisition signals, and keeps the queue behind it from running.
NeverCompleted == \E k \in 1 .. Len(gpu) : gpu[k].stuck

WaitPrevious == pc = "acquire"

C29_NoFenceDeadlock == WaitPrevious ~> (~WaitPrevious \/ NeverCompleted)

\* The loop's thread is blocked in waitForFences: the slot's fence is
\* unsignaled and the submission that will signal it is still queued.
C29_Witness ==
    /\ WaitPrevious
    /\ ~in_flight[frame]
    /\ ~NeverCompleted
    /\ \E k \in 1 .. Len(gpu) : gpu[k].fence = frame
    /\ prev.acq = "eFailed" \/ prev.acq = "eOk"

====
